---- MODULE Spec2Model ----
(***************************************************************************)
(* Corvus PaaS control plane: the deployment orchestration engine.         *)
(*                                                                         *)
(* The model covers the state store (db/deployments.go), the container     *)
(* runtime as seen through docker/nginx.go, the per-slug asset and log     *)
(* directories, the deployment pipelines (build2/pipeline_zip_deploy.go,   *)
(* DeployGitHub, deployToNginx), the teardown sequence                     *)
(* (build/pipeline_cleanup.go), the expiration reaper                      *)
(* (build/expiration.go) and the HTTP handlers that dispatch to them.      *)
(*                                                                         *)
(* Every long-running goroutine is cut at its blocking calls: one action   *)
(* per store write, runtime call or filesystem operation.  An HTTP handler *)
(* that the source runs synchronously is one action.                       *)
(***************************************************************************)
EXTENDS Integers, Sequences, FiniteSets, TLC

\* ---------------------------------------------------------------- bounds
MaxDeployments == 2      \* number of deployment ids ever created
MaxTime == 1             \* the clock runs 0..MaxTime
MaxRuns == 3             \* pipeline goroutines ever launched
MaxFaults == 1           \* calls that fail in one behaviour

Ids == 1..MaxDeployments
Slugs == {"swift-hawk", "calm-fox"}
Times == 0..MaxTime

\* ------------------------------------------------------- models/models.go
StatusDeploying == "deploying"
StatusLive == "live"
StatusFailed == "failed"
SourceZip == "zip"
SourceGitHub == "github"

NoRow == [absent |-> TRUE]       \* no row with that id in the table
NoExpiry == -1                   \* ExpiresAt == nil (NULL column)
NoContainer == [absent |-> TRUE] \* no container with that name
NoDir == [exists |-> FALSE]      \* <assetStorageRoot>/<slug>/ does not exist
Dir(id) == [exists |-> TRUE, from |-> id]  \* holds output staged for id
NoEvent == [type |-> "none"]

\* models.Deployment, restricted to the fields the engine reads or writes.
\* URL is "http://" + slug + ".localhost"; WebhookSecret is the random value
\* generated for the deployment at its creation.
Deployment(id, slug, sourceType, buildCommand, status, expiresAt) ==
    [ID |-> id, Slug |-> slug, SourceType |-> sourceType,
     BuildCommand |-> buildCommand, Status |-> status, ExpiresAt |-> expiresAt,
     URL |-> <<"http://", slug, ".localhost">>,
     WebhookSecret |-> <<"secret", id>>]

\* "deploy-" + deployment.Slug
ContainerName(slug) == <<"deploy-", slug>>
ContainerNames == {ContainerName(s) : s \in Slugs}

VARIABLES
    now,         \* wall clock (time.Now / CURRENT_TIMESTAMP)
    faults,      \* failures of the store, the runtime and the filesystem so
                 \* far (MaxFaults from the start where nothing ever fails)
    db,          \* deployments table: id -> row or NoRow
    nextId,      \* the next uuid.New()
    containers,  \* container runtime: name -> NoContainer or [state, run]
    assets,      \* asset root: slug -> NoDir or the id whose output it holds
    logs,        \* log root: slug -> whether <logRoot>/<slug>.log exists
    runs,        \* pipeline goroutines, in launch order
    reaper,      \* the expiration cleanup goroutine
    touched,     \* id -> how far a teardown has got with this deployment
    event,       \* what the last step returned to its caller, if anything
    main,        \* the main goroutine: "serving", or "Shutdown" once the
                 \* shutdown signal has come
    cancelled    \* the contexts that have been cancelled

vars == <<now, faults, db, nextId, containers, assets, logs, runs, reaper,
          touched, event, main, cancelled>>

\* Whether one more call can fail.
faulty == faults < MaxFaults

\* Outcomes of a call that can fail: FALSE = success, TRUE = error.
Faults == IF faulty THEN {FALSE, TRUE} ELSE {FALSE}

Count(failed) == IF failed THEN 1 ELSE 0

\* The step met n failures.
Inject(n) == faults + n <= MaxFaults /\ faults' = faults + n

\* ---------------------------------------------------- db/deployments.go
\* Columns named by GetDeployment's SELECT, by the SELECT of
\* ListExpiredDeployments, and destinations that
\* scanDeploymentFields passes to Scan.
GetDeploymentColumns == 15
ListExpiredDeploymentsColumns == 16
ScanDestinations == 16

\* row.Scan(dest...): database/sql rejects a destination count that differs
\* from the column count of the result set.
scanDeploymentFields(row, columns) ==
    IF columns # ScanDestinations
    THEN [err |-> "ScanError", deployment |-> NoRow]
    ELSE [err |-> "nil", deployment |-> row]

\* QueryRow(...).Scan: no row is sql.ErrNoRows (mapped to ErrRecordNotFound)
\* before the destinations are looked at; any other error is wrapped.
GetDeployment(table, id) ==
    IF table[id] = NoRow
    THEN [err |-> "ErrRecordNotFound", deployment |-> NoRow]
    ELSE scanDeploymentFields(table[id], GetDeploymentColumns)

\* Variant: the table accepts a second row with a slug already stored.
InsertDeployment_SlugNotUnique(table, deployment, fail) ==
    IF fail \/ table[deployment.ID] # NoRow
    THEN [err |-> "StoreError", db |-> table]
    ELSE [err |-> "nil", db |-> [table EXCEPT ![deployment.ID] = deployment]]

\* slug is UNIQUE, id is the PRIMARY KEY; fail is a failure of the engine.
InsertDeployment(table, deployment, fail) ==
    IF fail \/ table[deployment.ID] # NoRow
            \/ \E i \in Ids : table[i] # NoRow /\ table[i].Slug = deployment.Slug
    THEN [err |-> "StoreError", db |-> table]
    ELSE [err |-> "nil", db |-> [table EXCEPT ![deployment.ID] = deployment]]

\* Variant: the status update also rewrites the url column.
UpdateStatus_RewritesURL(table, id, newStatus, fail) ==
    IF fail THEN [err |-> "StoreError", db |-> table]
    ELSE IF table[id] = NoRow THEN [err |-> "ErrRecordNotFound", db |-> table]
    ELSE [err |-> "nil", db |-> [table EXCEPT ![id].Status = newStatus,
                                              ![id].URL = <<"http://", newStatus>>]]

\* UPDATE ... WHERE id = ?; zero rows affected is ErrRecordNotFound.
UpdateStatus(table, id, newStatus, fail) ==
    IF fail THEN [err |-> "StoreError", db |-> table]
    ELSE IF table[id] = NoRow THEN [err |-> "ErrRecordNotFound", db |-> table]
    ELSE [err |-> "nil", db |-> [table EXCEPT ![id].Status = newStatus]]

\* UPDATE ... SET url = ? WHERE id = ?; zero rows affected is
\* ErrRecordNotFound.
UpdateURL(table, id, url, fail) ==
    IF fail THEN [err |-> "StoreError", db |-> table]
    ELSE IF table[id] = NoRow THEN [err |-> "ErrRecordNotFound", db |-> table]
    ELSE [err |-> "nil", db |-> [table EXCEPT ![id].URL = url]]

\* Variant: a DELETE that affected no row is not reported.
DeleteDeployment_NoRowsCheck(table, id, fail) ==
    IF fail THEN [err |-> "StoreError", db |-> table]
    ELSE [err |-> "nil", db |-> [table EXCEPT ![id] = NoRow]]

\* Variant: the row is kept and marked failed instead of being deleted.
DeleteDeployment_MarksFailed(table, id, fail) ==
    IF fail THEN [err |-> "StoreError", db |-> table]
    ELSE IF table[id] = NoRow THEN [err |-> "ErrRecordNotFound", db |-> table]
    ELSE [err |-> "nil", db |-> [table EXCEPT ![id].Status = StatusFailed]]

\* DELETE ... WHERE id = ?; zero rows affected is ErrRecordNotFound.
DeleteDeployment(table, id, fail) ==
    IF fail THEN [err |-> "StoreError", db |-> table]
    ELSE IF table[id] = NoRow THEN [err |-> "ErrRecordNotFound", db |-> table]
    ELSE [err |-> "nil", db |-> [table EXCEPT ![id] = NoRow]]

\* Variant: the query without its status condition.
ListExpiredDeployments_AnyStatus(table, t) ==
    {table[i] : i \in {j \in Ids : /\ table[j] # NoRow
                                   /\ table[j].ExpiresAt # NoExpiry
                                   /\ table[j].ExpiresAt <= t}}

\* Variant: expires_at < CURRENT_TIMESTAMP.
ListExpiredDeployments_Strict(table, t) ==
    {table[i] : i \in {j \in Ids : /\ table[j] # NoRow
                                   /\ table[j].ExpiresAt # NoExpiry
                                   /\ table[j].ExpiresAt < t
                                   /\ table[j].Status = StatusLive}}

\* WHERE expires_at IS NOT NULL AND expires_at <= CURRENT_TIMESTAMP
\*   AND status = 'live'
ListExpiredDeployments(table, t) ==
    {scanDeploymentFields(table[i], ListExpiredDeploymentsColumns).deployment :
        i \in {j \in Ids : /\ table[j] # NoRow
                           /\ table[j].ExpiresAt # NoExpiry
                           /\ table[j].ExpiresAt <= t
                           /\ table[j].Status = StatusLive}}

\* The query has no ORDER BY: the rows come back in any order.
Orderings(S) ==
    {s \in [1..Cardinality(S) -> S] :
        \A i, j \in 1..Cardinality(S) : i # j => s[i] # s[j]}

\* ---------------------------------------------------------------- context
\* The context of the HTTP request that launched a pipeline.
requestContext == "request"

\* Variant: the pipeline goroutine works under the context of the request.
deployContext_OfRequest == requestContext

\* The context every pipeline goroutine hands to the container runtime:
\* context.Background(), not the context of the request that launched it.
deployContext == "Background"

\* The context StartExpirationCleanupLoop is called with.
expirationContext == "expirationContext"

\* ctx.Done() is closed: a runtime call made with ctx returns its error
\* without acting.
Done(ctx) == ctx \in cancelled

\* ------------------------------------------------------- docker/nginx.go
StopOutcomes == IF faulty THEN {"ok", "listFail", "stopFail", "removeFail"}
                          ELSE {"ok"}

\* part occurs in name (names are sequences of their pieces).
Contains(name, part) ==
    \E i \in 0..(Len(name) - Len(part)) :
        SubSeq(name, i + 1, i + Len(part)) = part

\* ContainerList with All and a name filter: the runtime answers with every
\* container, running or stopped, whose name contains the filter.
ContainerList(cs, filter) ==
    {n \in DOMAIN cs : cs[n] # NoContainer /\ Contains(n, filter)}

\* Variant: the first listed container is taken without comparing names.
TargetContainer_FirstListed(cs, name) ==
    IF ContainerList(cs, name) = {} THEN {}
    ELSE {CHOOSE n \in ContainerList(cs, name) :
             \A m \in ContainerList(cs, name) : Len(n) >= Len(m)}

\* The container StopAndRemoveContainer acts on: the listed one whose name
\* is the wanted name exactly, if there is one.
TargetContainer(cs, name) == {n \in ContainerList(cs, name) : n = name}

\* ContainerList, exact-name match, ContainerStop, ContainerRemove.
StopAndRemoveContainer(cs, name, outcome) ==
    IF outcome = "listFail" THEN [err |-> "RuntimeError", containers |-> cs]
    ELSE IF TargetContainer(cs, name) = {}
    THEN [err |-> "nil", containers |-> cs]
    ELSE LET target == CHOOSE n \in TargetContainer(cs, name) : TRUE
         IN  IF outcome = "stopFail"
             THEN [err |-> "RuntimeError", containers |-> cs]
             ELSE IF outcome = "removeFail"
             THEN [err |-> "RuntimeError",
                   containers |-> [cs EXCEPT ![target].state = "stopped"]]
             ELSE [err |-> "nil",
                   containers |-> [cs EXCEPT ![target] = NoContainer]]

StartOutcomes == IF faulty THEN {"ok", "pullFail", "createFail", "startFail"}
                           ELSE {"ok"}

\* Variant: the error of ContainerStart is dropped.
CreateAndStartNginxContainer_StartUnchecked(cs, name, run, outcome) ==
    IF outcome \in {"pullFail", "createFail"} \/ cs[name] # NoContainer
    THEN [err |-> "RuntimeError", containers |-> cs]
    ELSE IF outcome = "startFail"
    THEN [err |-> "nil",
          containers |-> [cs EXCEPT ![name] = [state |-> "stopped", run |-> run]]]
    ELSE [err |-> "nil",
          containers |-> [cs EXCEPT ![name] = [state |-> "running", run |-> run]]]

\* Variant: a container already under the name is replaced.
CreateAndStartNginxContainer_ReplacesNamed(cs, name, run, outcome) ==
    IF outcome \in {"pullFail", "createFail"}
    THEN [err |-> "RuntimeError", containers |-> cs]
    ELSE IF outcome = "startFail"
    THEN [err |-> "RuntimeError",
          containers |-> [cs EXCEPT ![name] = [state |-> "stopped", run |-> run]]]
    ELSE [err |-> "nil",
          containers |-> [cs EXCEPT ![name] = [state |-> "running", run |-> run]]]

\* pullImageIfNotPresent, ContainerCreate (a name in use is a conflict),
\* ContainerStart.
CreateAndStartNginxContainer(cs, name, run, outcome) ==
    IF outcome \in {"pullFail", "createFail"} \/ cs[name] # NoContainer
    THEN [err |-> "RuntimeError", containers |-> cs]
    ELSE IF outcome = "startFail"
    THEN [err |-> "RuntimeError",
          containers |-> [cs EXCEPT ![name] = [state |-> "stopped", run |-> run]]]
    ELSE [err |-> "nil",
          containers |-> [cs EXCEPT ![name] = [state |-> "running", run |-> run]]]

\* ----------------------------------------------------------- util/copy.go
CopyOutcomes == IF faulty THEN {"ok", "statFail", "removeFail", "mkdirFail", "walkFail"}
                          ELSE {"ok"}

\* Variant: the copy reports success whatever happened.
CopyDirectory_ErrorDropped(dirs, slug, id, outcome) ==
    IF outcome \in {"statFail", "removeFail"} THEN [err |-> "nil", assets |-> dirs]
    ELSE IF outcome = "mkdirFail"
    THEN [err |-> "nil", assets |-> [dirs EXCEPT ![slug] = NoDir]]
    ELSE [err |-> "nil", assets |-> [dirs EXCEPT ![slug] = Dir(id)]]

\* Stat the source, RemoveAll the destination, MkdirAll it, walk and copy.
\* A failure after RemoveAll leaves the destination gone (mkdirFail) or
\* partly filled (walkFail).
CopyDirectory(dirs, slug, id, outcome) ==
    IF outcome \in {"statFail", "removeFail"} THEN [err |-> "CopyError", assets |-> dirs]
    ELSE IF outcome = "mkdirFail"
    THEN [err |-> "CopyError", assets |-> [dirs EXCEPT ![slug] = NoDir]]
    ELSE IF outcome = "walkFail"
    THEN [err |-> "CopyError", assets |-> [dirs EXCEPT ![slug] = Dir(id)]]
    ELSE [err |-> "nil", assets |-> [dirs EXCEPT ![slug] = Dir(id)]]

\* ------------------------------------------------ build/pipeline_cleanup.go
\* Variant: a container that is already gone is reported as an error.
CleanupContainer_AbsentIsError(cs, containerName, outcome) ==
    IF cs[containerName] = NoContainer
    THEN [err |-> "RuntimeError", containers |-> cs]
    ELSE StopAndRemoveContainer(cs, containerName, outcome)

\* CleanupContainer hands the name to dockerClient.StopAndRemoveContainer.
CleanupContainer(cs, containerName, outcome) ==
    StopAndRemoveContainer(cs, containerName, outcome)

\* Variant: the error of os.RemoveAll is dropped.
CleanupFiles_ErrorSwallowed(dirs, slug, fail) ==
    IF fail THEN [err |-> "nil", assets |-> dirs]
    ELSE [err |-> "nil", assets |-> [dirs EXCEPT ![slug] = NoDir]]

\* Variant: the removal takes the whole asset storage root.
CleanupFiles_RemovesRoot(dirs, slug, fail) ==
    IF fail THEN [err |-> "RemoveError", assets |-> dirs]
    ELSE [err |-> "nil", assets |-> [s \in DOMAIN dirs |-> NoDir]]

\* os.RemoveAll(<assetStorageRoot>/<slug>): nil when the path does not exist.
CleanupFiles(dirs, slug, fail) ==
    IF fail THEN [err |-> "RemoveError", assets |-> dirs]
    ELSE [err |-> "nil", assets |-> [dirs EXCEPT ![slug] = NoDir]]

\* os.Remove(<logRoot>/<slug>.log): a missing file is not an error.
CleanupLogFile(files, slug, fail) ==
    IF fail THEN [err |-> "RemoveError", logs |-> files]
    ELSE [err |-> "nil", logs |-> [files EXCEPT ![slug] = FALSE]]

\* ------------------------------------------------------------------ Init
\* The expiration goroutine between two ticks.  While a pass runs: list is
\* the query result, idx the element being torn down, pc the teardown step
\* about to run, queriedAt the time of the query, results the errors the
\* earlier teardowns of this pass returned; errs are the steps of the
\* current teardown that ended with an error, injected whether the runtime,
\* the filesystem or the store failed under steps 1, 2 or 4 of it, and
\* retry what an earlier teardown of the same deployment had come to.
IdleReaper == [pc |-> "idle", list |-> <<>>, idx |-> 0, queriedAt |-> 0,
               errs |-> {}, injected |-> FALSE, retry |-> "untouched",
               results |-> <<>>]

Init ==
    /\ now = 0
    /\ faults \in {0, MaxFaults}
    /\ main = "serving"
    /\ cancelled = {}
    /\ db = [i \in Ids |-> NoRow]
    /\ nextId = 1
    /\ containers = [n \in ContainerNames |-> NoContainer]
    /\ assets = [s \in Slugs |-> NoDir]
    /\ logs = [s \in Slugs |-> FALSE]
    /\ runs = <<>>
    /\ reaper = IdleReaper
    /\ touched = [i \in Ids |-> "untouched"]
    /\ event = NoEvent

\* The clock advances.
Tick ==
    /\ now < MaxTime
    /\ now' = now + 1
    /\ event' = NoEvent
    /\ UNCHANGED <<main, cancelled, faults, db, nextId, containers, assets, logs,
                 runs, reaper, touched>>

\* ------------------------------------------------- handlers (unnamed/part_002)
Http(op, id, code) == [type |-> "http", op |-> op, id |-> id, code |-> code]

\* The request forms tried: a zip upload, a repository served as it is, a
\* repository with a build command.
Requests == {[SourceType |-> SourceZip, BuildCommand |-> ""],
             [SourceType |-> SourceGitHub, BuildCommand |-> ""],
             [SourceType |-> SourceGitHub, BuildCommand |-> "npm run build"]}

\* util.GenerateSlug draws a random adjective-noun pair: it may collide
\* with a slug in use, or be fresh (one fresh slug stands for all of them).
GenerateSlug(table) ==
    LET used == {table[i].Slug : i \in {j \in Ids : table[j] # NoRow}}
        fresh == Slugs \ used
    IN  used \cup (IF fresh = {} THEN {}
                   ELSE {CHOOSE s \in fresh : TRUE})

\* The expiration carried by the record handed to the dispatch surface:
\* none, or a time after its creation.
RequestExpiresAt(t) == {NoExpiry} \cup {e \in Times : e > t}

NewRun(deployment, kind) ==
    [deployment |-> deployment, kind |-> kind,
     pc |-> "UpdateStatusDeploying", writes |-> <<>>]

\* Variant: the pipeline is launched whether or not the insert succeeded.
CreateDeployment_LaunchesAnyway ==
    \E request \in Requests, expiresAt \in RequestExpiresAt(now),
       slug \in GenerateSlug(db), fail \in Faults :
        LET sourceType == request.SourceType
            deployment == Deployment(nextId, slug, sourceType, request.BuildCommand,
                                     StatusDeploying, expiresAt)
            inserted == InsertDeployment(db, deployment, fail)
        IN  /\ nextId <= MaxDeployments
            /\ Len(runs) < MaxRuns
            /\ Inject(Count(fail))
            /\ db' = inserted.db
            /\ nextId' = nextId + 1
            /\ runs' = Append(runs,
                  NewRun(deployment,
                         IF sourceType = SourceZip THEN "DeployZipUpload"
                                                   ELSE "DeployGitHub"))
            /\ event' = Http("CreateDeployment", nextId,
                             IF inserted.err # "nil" THEN 500 ELSE 201)
            /\ UNCHANGED <<main, cancelled, now, containers, assets, logs, reaper, touched>>

\* POST /api/deployments: uuid.New(), util.GenerateSlug(), InsertDeployment,
\* then `go DeployZipUpload` or `go DeployGitHub`, then 201.
CreateDeployment ==
    \E request \in Requests, expiresAt \in RequestExpiresAt(now),
       slug \in GenerateSlug(db), fail \in Faults :
        LET sourceType == request.SourceType
            deployment == Deployment(nextId, slug, sourceType, request.BuildCommand,
                                     StatusDeploying, expiresAt)
            inserted == InsertDeployment(db, deployment, fail)
        IN  /\ nextId <= MaxDeployments
            /\ Len(runs) < MaxRuns
            /\ Inject(Count(fail))
            /\ IF inserted.err # "nil"
               THEN /\ event' = Http("CreateDeployment", nextId, 500)
                    /\ UNCHANGED <<db, nextId, runs>>
               ELSE /\ db' = inserted.db
                    /\ nextId' = nextId + 1
                    /\ runs' = Append(runs,
                          NewRun(deployment,
                                 IF sourceType = SourceZip THEN "DeployZipUpload"
                                                           ELSE "DeployGitHub"))
                    /\ event' = Http("CreateDeployment", nextId, 201)
            /\ UNCHANGED <<main, cancelled, now, containers, assets, logs, reaper, touched>>

\* The teardown steps as the DELETE handler runs them after its fetch.
\* The result is the state after the handler and the status it answers.
DeleteSteps(deployment, stopOutcome, failFiles, failLog, failRow) ==
    LET c == CleanupContainer(containers, ContainerName(deployment.Slug), stopOutcome)
        f == CleanupFiles(assets, deployment.Slug, failFiles)
        l == CleanupLogFile(logs, deployment.Slug, failLog)
        r == DeleteDeployment(db, deployment.ID, failRow)
    IN  IF c.err # "nil"
        THEN [code |-> 500, containers |-> c.containers, assets |-> assets,
              logs |-> logs, db |-> db]
        ELSE IF f.err # "nil"
        THEN [code |-> 500, containers |-> c.containers, assets |-> f.assets,
              logs |-> logs, db |-> db]
        ELSE IF r.err # "nil"
        THEN [code |-> 500, containers |-> c.containers, assets |-> f.assets,
              logs |-> l.logs, db |-> r.db]
        ELSE [code |-> 204, containers |-> c.containers, assets |-> f.assets,
              logs |-> l.logs, db |-> r.db]

\* DELETE /api/deployments/:uuid
DeleteDeploymentHandler ==
    \E id \in Ids :
        LET got == GetDeployment(db, id)
        IN  /\ UNCHANGED <<main, cancelled, now, nextId, runs, reaper>>
            /\ IF got.err = "ErrRecordNotFound"
               THEN /\ event' = Http("DeleteDeployment", id, 404)
                    /\ UNCHANGED <<faults, db, containers, assets, logs, touched>>
               ELSE IF got.err # "nil"
               THEN /\ event' = Http("DeleteDeployment", id, 500)
                    /\ UNCHANGED <<faults, db, containers, assets, logs, touched>>
               ELSE \E stopOutcome \in StopOutcomes, failFiles \in Faults,
                       failLog \in Faults, failRow \in Faults :
                        LET after == DeleteSteps(got.deployment, stopOutcome,
                                                 failFiles, failLog, failRow)
                        IN  /\ Inject(Count(stopOutcome # "ok") + Count(failFiles)
                                      + Count(failLog) + Count(failRow))
                            /\ containers' = after.containers
                            /\ assets' = after.assets
                            /\ logs' = after.logs
                            /\ db' = after.db
                            /\ touched' = [touched EXCEPT ![id] =
                                  IF /\ after.containers = containers
                                     /\ after.assets = assets THEN @
                                  ELSE IF after.code = 204 THEN "touched"
                                  ELSE "failedPartway"]
                            /\ event' = [type |-> "deleted", code |-> after.code,
                                          deployment |-> got.deployment]

\* Variant: the handler resets the status of the row to deploying itself
\* before it answers.
RedeployDeploymentHandler_WritesDeploying ==
    \E id \in Ids :
        LET got == GetDeployment(db, id)
        IN  /\ UNCHANGED <<main, cancelled, now, faults, nextId, containers, assets, logs,
                           reaper, touched, runs>>
            /\ db' = UpdateStatus(db, id, StatusDeploying, FALSE).db
            /\ event' = Http("RedeployDeployment", id,
                             IF got.err = "ErrRecordNotFound" THEN 404 ELSE 500)

\* POST /api/deployments/:uuid/redeploy
RedeployDeploymentHandler ==
    \E id \in Ids :
        LET got == GetDeployment(db, id)
        IN  /\ UNCHANGED <<main, cancelled, now, faults, db, nextId, containers, assets, logs,
                           reaper, touched>>
            /\ IF got.err = "ErrRecordNotFound"
               THEN /\ event' = Http("RedeployDeployment", id, 404)
                    /\ UNCHANGED runs
               ELSE IF got.err # "nil"
               THEN /\ event' = Http("RedeployDeployment", id, 500)
                    /\ UNCHANGED runs
               ELSE IF got.deployment.SourceType \notin {SourceZip, SourceGitHub}
               THEN /\ event' = Http("RedeployDeployment", id, 400)
                    /\ UNCHANGED runs
               ELSE /\ Len(runs) < MaxRuns
                    /\ runs' = Append(runs,
                          NewRun(got.deployment,
                                 IF got.deployment.SourceType = SourceZip
                                 THEN "RedeployExistingZip" ELSE "DeployGitHub"))
                    /\ event' = Http("RedeployDeployment", id, 202)

\* ------------------------------------- pipelines (build2, DeployGitHub)
\* Variant: the caller does not return after recording the failure.
logFailureAndUpdateStatus_NoReturn(r, table, fail) ==
    [db |-> UpdateStatus(table, runs[r].deployment.ID, StatusFailed, fail).db,
     runs |-> [runs EXCEPT ![r].writes = Append(@, StatusFailed)]]

\* Variant: the failure helper only logs and writes no status.
logFailureAndUpdateStatus_LogOnly(r, table, fail) ==
    [db |-> table, runs |-> [runs EXCEPT ![r].pc = "done"]]

\* pipelineLogger.logFailureAndUpdateStatus: UpdateStatus(id, failed); an
\* error of that write is only logged.  The run ends.
logFailureAndUpdateStatus(r, table, fail) ==
    [db |-> UpdateStatus(table, runs[r].deployment.ID, StatusFailed, fail).db,
     runs |-> [runs EXCEPT ![r].pc = "done",
                           ![r].writes = Append(@, StatusFailed)]]

\* The step after the status was set to deploying.
AfterDeploying(run) ==
    IF run.kind = "DeployZipUpload" THEN "ExtractZipUpload"
    ELSE IF run.kind = "DeployGitHub" THEN "cloneGitHubRepo"
    ELSE "deployToNginx"

\* openLogFileForCurrentDeployment (a failure is only logged), then
\* UpdateStatus(id, deploying).
PipelineStart ==
    \E r \in DOMAIN runs, failLog \in Faults, fail \in Faults, failAgain \in Faults :
        LET run == runs[r]
            written == [runs EXCEPT ![r].writes = Append(@, StatusDeploying)]
            updated == UpdateStatus(db, run.deployment.ID, StatusDeploying, fail)
        IN  /\ run.pc = "UpdateStatusDeploying"
            /\ Inject(Count(failLog) + Count(fail) + Count(fail /\ failAgain))
            /\ fail \/ ~failAgain
            /\ logs' = IF failLog THEN logs
                       ELSE [logs EXCEPT ![run.deployment.Slug] = TRUE]
            /\ IF updated.err # "nil"
               THEN LET failed == [db |-> UpdateStatus(db, run.deployment.ID,
                                                       StatusFailed, failAgain).db,
                                   runs |-> [written EXCEPT ![r].pc = "done",
                                               ![r].writes = Append(@, StatusFailed)]]
                    IN  db' = failed.db /\ runs' = failed.runs
               ELSE /\ db' = updated.db
                    /\ runs' = [written EXCEPT ![r].pc = AfterDeploying(run)]
            /\ event' = NoEvent
            /\ UNCHANGED <<main, cancelled, now, nextId, containers, assets, reaper, touched>>

\* DeployZipUpload: os.CreateTemp, io.Copy of the upload, ExtractZipUpload.
PipelineExtractZip ==
    \E r \in DOMAIN runs, fail \in Faults, failAgain \in Faults :
        /\ runs[r].pc = "ExtractZipUpload"
        /\ Inject(Count(fail) + Count(failAgain))
        /\ fail \/ ~failAgain
        /\ IF fail
           THEN LET failed == logFailureAndUpdateStatus(r, db, failAgain)
                IN  db' = failed.db /\ runs' = failed.runs
           ELSE /\ runs' = [runs EXCEPT ![r].pc = "deployToNginx"]
                /\ UNCHANGED db
        /\ event' = NoEvent
        /\ UNCHANGED <<main, cancelled, now, nextId, containers, assets, logs, reaper, touched>>

\* DeployGitHub: cloneGitHubRepo into the working directory.
PipelineClone ==
    \E r \in DOMAIN runs, fail \in Faults, failAgain \in Faults :
        /\ runs[r].pc = "cloneGitHubRepo"
        /\ Inject(Count(fail) + Count(failAgain))
        /\ fail \/ ~failAgain
        /\ IF fail
           THEN LET failed == logFailureAndUpdateStatus(r, db, failAgain)
                IN  db' = failed.db /\ runs' = failed.runs
           ELSE /\ runs' = [runs EXCEPT ![r].pc =
                      IF runs[r].deployment.BuildCommand # ""
                      THEN "RunEphemeralBuildContainer" ELSE "deployToNginx"]
                /\ UNCHANGED db
        /\ event' = NoEvent
        /\ UNCHANGED <<main, cancelled, now, nextId, containers, assets, logs, reaper, touched>>

\* DeployGitHub: decodeEnvVarsToSlice and RunEphemeralBuildContainer.
PipelineBuild ==
    \E r \in DOMAIN runs, fail \in Faults, failAgain \in Faults :
        /\ runs[r].pc = "RunEphemeralBuildContainer"
        /\ Inject(Count(fail) + Count(failAgain))
        /\ fail \/ Done(deployContext) \/ ~failAgain
        /\ IF fail \/ Done(deployContext)
           THEN LET failed == logFailureAndUpdateStatus(r, db, failAgain)
                IN  db' = failed.db /\ runs' = failed.runs
           ELSE /\ runs' = [runs EXCEPT ![r].pc = "deployToNginx"]
                /\ UNCHANGED db
        /\ event' = NoEvent
        /\ UNCHANGED <<main, cancelled, now, nextId, containers, assets, logs, reaper, touched>>

\* Variant: RedeployExistingZip goes on when the directory is missing.
PipelinePublishFiles_StatIgnored ==
    \E r \in DOMAIN runs, outcome \in CopyOutcomes, failAgain \in Faults :
        LET run == runs[r]
            slug == run.deployment.Slug
            copied == CopyDirectory(assets, slug, run.deployment.ID, outcome)
            err == IF run.kind = "RedeployExistingZip" THEN "nil" ELSE copied.err
        IN  /\ run.pc = "deployToNginx"
            /\ Inject(Count(outcome # "ok") + Count(failAgain))
            /\ err # "nil" \/ ~failAgain
            /\ assets' = IF run.kind = "RedeployExistingZip" THEN assets
                         ELSE copied.assets
            /\ IF err # "nil"
               THEN LET failed == logFailureAndUpdateStatus(r, db, failAgain)
                    IN  db' = failed.db /\ runs' = failed.runs
               ELSE /\ runs' = [runs EXCEPT ![r].pc = "StopAndRemoveContainer"]
                    /\ UNCHANGED db
            /\ event' = NoEvent
            /\ UNCHANGED <<main, cancelled, now, nextId, containers, logs, reaper, touched>>

\* deployToNginx: os.Stat of the output directory and util.CopyDirectory
\* into <assetStorageRoot>/<slug>.  RedeployExistingZip copies nothing: it
\* only checks that the directory is still there.
PipelinePublishFiles ==
    \E r \in DOMAIN runs, outcome \in CopyOutcomes, failAgain \in Faults :
        LET run == runs[r]
            slug == run.deployment.Slug
            copied == CopyDirectory(assets, slug, run.deployment.ID, outcome)
            err == IF run.kind = "RedeployExistingZip"
                   THEN (IF assets[slug] = NoDir THEN "NotExist" ELSE "nil")
                   ELSE copied.err
        IN  /\ run.pc = "deployToNginx"
            /\ Inject(Count(outcome # "ok") + Count(failAgain))
            /\ err # "nil" \/ ~failAgain
            /\ assets' = IF run.kind = "RedeployExistingZip" THEN assets
                         ELSE copied.assets
            /\ IF err # "nil"
               THEN LET failed == logFailureAndUpdateStatus(r, db, failAgain)
                    IN  db' = failed.db /\ runs' = failed.runs
               ELSE /\ runs' = [runs EXCEPT ![r].pc = "StopAndRemoveContainer"]
                    /\ UNCHANGED db
            /\ event' = NoEvent
            /\ UNCHANGED <<main, cancelled, now, nextId, containers, logs, reaper, touched>>

\* dockerClient.StopAndRemoveContainer("deploy-" + slug)
PipelineStopOld ==
    \E r \in DOMAIN runs, outcome \in StopOutcomes, failAgain \in Faults :
        LET stopped == IF Done(deployContext)
                       THEN [err |-> "Canceled", containers |-> containers]
                       ELSE StopAndRemoveContainer(containers,
                                ContainerName(runs[r].deployment.Slug), outcome)
        IN  /\ runs[r].pc = "StopAndRemoveContainer"
            /\ Inject(Count(outcome # "ok") + Count(failAgain))
            /\ stopped.err # "nil" \/ ~failAgain
            /\ containers' = stopped.containers
            /\ IF stopped.err # "nil"
               THEN LET failed == logFailureAndUpdateStatus(r, db, failAgain)
                    IN  db' = failed.db /\ runs' = failed.runs
               ELSE /\ runs' = [runs EXCEPT ![r].pc = "CreateAndStartNginxContainer"]
                    /\ UNCHANGED db
            /\ event' = NoEvent
            /\ UNCHANGED <<main, cancelled, now, nextId, assets, logs, reaper, touched>>

\* dockerClient.CreateAndStartNginxContainer(...)
PipelineStartNginx ==
    \E r \in DOMAIN runs, outcome \in StartOutcomes, failAgain \in Faults :
        LET started == IF Done(deployContext)
                       THEN [err |-> "Canceled", containers |-> containers]
                       ELSE CreateAndStartNginxContainer(containers,
                                ContainerName(runs[r].deployment.Slug), r, outcome)
        IN  /\ runs[r].pc = "CreateAndStartNginxContainer"
            /\ Inject(Count(outcome # "ok") + Count(failAgain))
            /\ started.err # "nil" \/ ~failAgain
            /\ containers' = started.containers
            /\ IF started.err # "nil"
               THEN LET failed == logFailureAndUpdateStatus(r, db, failAgain)
                    IN  db' = failed.db /\ runs' = failed.runs
               ELSE /\ runs' = [runs EXCEPT ![r].pc = "UpdateStatusLive"]
                    /\ UNCHANGED db
            /\ event' = NoEvent
            /\ UNCHANGED <<main, cancelled, now, nextId, assets, logs, reaper, touched>>

\* Variant: the run returns after the container start without the live write.
PipelineMarkLive_NoWrite ==
    \E r \in DOMAIN runs, fail \in Faults :
        /\ runs[r].pc = "UpdateStatusLive"
        /\ Inject(Count(fail))
        /\ db' = db
        /\ runs' = [runs EXCEPT ![r].pc = "done"]
        /\ event' = NoEvent
        /\ UNCHANGED <<main, cancelled, now, nextId, containers, assets, logs, reaper, touched>>

\* Variant: a failed live write is handled like any other pipeline error.
PipelineMarkLive_FailureHelper ==
    \E r \in DOMAIN runs, fail \in Faults :
        /\ runs[r].pc = "UpdateStatusLive"
        /\ Inject(Count(fail))
        /\ IF fail
           THEN LET failed == logFailureAndUpdateStatus(r, db, FALSE)
                IN  db' = failed.db /\ runs' = failed.runs
           ELSE /\ db' = UpdateStatus(db, runs[r].deployment.ID, StatusLive, fail).db
                /\ runs' = [runs EXCEPT ![r].pc = "done",
                                        ![r].writes = Append(@, StatusLive)]
        /\ event' = NoEvent
        /\ UNCHANGED <<main, cancelled, now, nextId, containers, assets, logs, reaper, touched>>

\* database.UpdateStatus(id, live); an error is logged, nothing is undone.
PipelineMarkLive ==
    \E r \in DOMAIN runs, fail \in Faults :
        /\ runs[r].pc = "UpdateStatusLive"
        /\ Inject(Count(fail))
        /\ db' = UpdateStatus(db, runs[r].deployment.ID, StatusLive, fail).db
        /\ runs' = [runs EXCEPT ![r].pc = "done", ![r].writes = Append(@, StatusLive)]
        /\ event' = NoEvent
        /\ UNCHANGED <<main, cancelled, now, nextId, containers, assets, logs, reaper, touched>>

\* ------------------------------------------- teardown (pipeline_cleanup.go)
\* The deployment TeardownDeployment is working on.
Current == reaper.list[reaper.idx]

\* Variant: the file removal is left out.
AfterStep_SkipFiles(step, err) ==
    IF step = "CleanupContainer"
    THEN (IF err # "nil" THEN "return" ELSE "CleanupLogFile")
    ELSE IF step = "CleanupFiles"
    THEN (IF err # "nil" THEN "return" ELSE "CleanupLogFile")
    ELSE IF step = "CleanupLogFile" THEN "DeleteDeployment"
    ELSE "return"

\* Variant: an error of the file removal only warns.
AfterStep_FilesNotFatal(step, err) ==
    IF step = "CleanupContainer"
    THEN (IF err # "nil" THEN "return" ELSE "CleanupFiles")
    ELSE IF step = "CleanupFiles" THEN "CleanupLogFile"
    ELSE IF step = "CleanupLogFile" THEN "DeleteDeployment"
    ELSE "return"

\* Variant: an error of the log removal is returned.
AfterStep_LogFatal(step, err) ==
    IF step = "CleanupContainer"
    THEN (IF err # "nil" THEN "return" ELSE "CleanupFiles")
    ELSE IF step = "CleanupFiles"
    THEN (IF err # "nil" THEN "return" ELSE "CleanupLogFile")
    ELSE IF step = "CleanupLogFile"
    THEN (IF err # "nil" THEN "return" ELSE "DeleteDeployment")
    ELSE "return"

\* Variant: the teardown returns after the log removal and leaves the row.
AfterStep_NoRowDelete(step, err) ==
    IF step = "CleanupContainer"
    THEN (IF err # "nil" THEN "return" ELSE "CleanupFiles")
    ELSE IF step = "CleanupFiles"
    THEN (IF err # "nil" THEN "return" ELSE "CleanupLogFile")
    ELSE "return"

\* The control flow of TeardownDeployment: the step that follows `step`
\* when it ended with err, or "return".  Container and file removal and the
\* row delete return their error; the log removal only warns.
AfterStep(step, err) ==
    IF step = "CleanupContainer"
    THEN (IF err # "nil" THEN "return" ELSE "CleanupFiles")
    ELSE IF step = "CleanupFiles"
    THEN (IF err # "nil" THEN "return" ELSE "CleanupLogFile")
    ELSE IF step = "CleanupLogFile" THEN "DeleteDeployment"
    ELSE "return"

\* Variant: the pass ends at the first teardown that returns an error.
AfterTeardown_StopOnError(err) ==
    IF err = "nil" /\ reaper.idx < Len(reaper.list)
    THEN [reaper EXCEPT !.idx = @ + 1, !.pc = "CleanupContainer",
                        !.errs = {}, !.injected = FALSE,
                        !.retry = touched[reaper.list[reaper.idx + 1].ID],
                        !.results = Append(@, err)]
    ELSE IdleReaper

\* cleanupExpiredDeployments: the range loop moves to the next deployment
\* whatever TeardownDeployment returned, and the pass ends after the last.
AfterTeardown(err) ==
    IF reaper.idx < Len(reaper.list)
    THEN [reaper EXCEPT !.idx = @ + 1, !.pc = "CleanupContainer",
                        !.errs = {}, !.injected = FALSE,
                        !.retry = touched[reaper.list[reaper.idx + 1].ID],
                        !.results = Append(@, err)]
    ELSE IdleReaper

\* What follows a teardown step that ended with err: the next step, or the
\* return of TeardownDeployment to its caller.
Proceed(step, err, fault) ==
    LET next == AfterStep(step, err)
        injected == reaper.injected \/ fault
        errs == IF err # "nil" THEN reaper.errs \cup {step} ELSE reaper.errs
    IN  IF next = "return"
        THEN /\ event' = [type |-> "teardown", deployment |-> Current,
                          err |-> err, step |-> step,
                          errs |-> errs, injected |-> injected,
                          retry |-> reaper.retry, call |-> reaper.idx,
                          earlier |-> reaper.results,
                          queriedAt |-> reaper.queriedAt]
             /\ reaper' = AfterTeardown(err)
             /\ touched' = [touched EXCEPT ![Current.ID] =
                               IF err = "nil" THEN "tornDown" ELSE step]
        ELSE /\ event' = NoEvent
             /\ reaper' = [reaper EXCEPT !.pc = next, !.errs = errs,
                                         !.injected = injected]
             /\ touched' = [touched EXCEPT ![Current.ID] = "inTeardown"]

\* step 1: CleanupContainer("deploy-" + slug)
TeardownCleanupContainer ==
    \E outcome \in StopOutcomes :
        LET c == IF Done(expirationContext)
                 THEN [err |-> "Canceled", containers |-> containers]
                 ELSE CleanupContainer(containers, ContainerName(Current.Slug),
                                       outcome)
        IN  /\ reaper.pc = "CleanupContainer"
            /\ Inject(Count(outcome # "ok"))
            /\ containers' = c.containers
            /\ Proceed("CleanupContainer", c.err, outcome # "ok")
            /\ UNCHANGED <<main, cancelled, now, db, nextId, assets, logs, runs>>

\* step 2: CleanupFiles(slug)
TeardownCleanupFiles ==
    \E fail \in Faults :
        LET f == CleanupFiles(assets, Current.Slug, fail)
        IN  /\ reaper.pc = "CleanupFiles"
            /\ Inject(Count(fail))
            /\ assets' = f.assets
            /\ Proceed("CleanupFiles", f.err, fail)
            /\ UNCHANGED <<main, cancelled, now, db, nextId, containers, logs, runs>>

\* step 3: CleanupLogFile(slug)
TeardownCleanupLogFile ==
    \E fail \in Faults :
        LET l == CleanupLogFile(logs, Current.Slug, fail)
        IN  /\ reaper.pc = "CleanupLogFile"
            /\ Inject(Count(fail))
            /\ logs' = l.logs
            /\ Proceed("CleanupLogFile", l.err, FALSE)
            /\ UNCHANGED <<main, cancelled, now, db, nextId, containers, assets, runs>>

\* step 4: database.DeleteDeployment(deployment.ID)
TeardownDeleteDeployment ==
    \E fail \in Faults :
        LET r == DeleteDeployment(db, Current.ID, fail)
        IN  /\ reaper.pc = "DeleteDeployment"
            /\ Inject(Count(fail))
            /\ db' = r.db
            /\ Proceed("DeleteDeployment", r.err, fail)
            /\ UNCHANGED <<main, cancelled, now, nextId, containers, assets, logs, runs>>

\* ------------------------------------------- reaper (build/expiration.go)
\* A tick of the ticker: cleanupExpiredDeployments queries the store; a
\* query error or an empty result ends the pass at once.
ReaperTick ==
    \E fail \in Faults, list \in Orderings(ListExpiredDeployments(db, now)) :
        /\ reaper.pc = "idle"
        /\ Inject(Count(fail))
        /\ reaper' = IF fail \/ list = <<>> THEN IdleReaper
                     ELSE [IdleReaper EXCEPT !.pc = "CleanupContainer",
                                             !.list = list, !.idx = 1,
                                             !.queriedAt = now,
                                             !.retry = touched[list[1].ID]]
        /\ event' = NoEvent
        /\ UNCHANGED <<main, cancelled, now, db, nextId, containers, assets, logs, runs, touched>>

\* --------------------------------------------------------- specification
Next ==
    \/ Tick
    \/ CreateDeployment
    \/ DeleteDeploymentHandler
    \/ RedeployDeploymentHandler
    \/ PipelineStart
    \/ PipelineExtractZip
    \/ PipelineClone
    \/ PipelineBuild
    \/ PipelinePublishFiles
    \/ PipelineStopOld
    \/ PipelineStartNginx
    \/ PipelineMarkLive
    \/ ReaperTick
    \/ TeardownCleanupContainer
    \/ TeardownCleanupFiles
    \/ TeardownCleanupLogFile
    \/ TeardownDeleteDeployment

Spec == Init /\ [][Next]_vars

\* The reaper goroutine is scheduled: a tick comes, and a teardown step that
\* has been called returns.
FairSpec ==
    /\ Spec
    /\ WF_vars(ReaperTick)
    /\ WF_vars(TeardownCleanupContainer)
    /\ WF_vars(TeardownCleanupFiles)
    /\ WF_vars(TeardownCleanupLogFile)
    /\ WF_vars(TeardownDeleteDeployment)

\* ------------------------------------------- TeardownDeployment, twice
\* TeardownDeployment called two times in a row with the same deployment
\* record, from any state of its row, container, directory and log file.
InitTeardown ==
    \E id \in Ids, slug \in Slugs, request \in Requests,
       expiresAt \in RequestExpiresAt(0), status \in {StatusLive, StatusFailed},
       container \in {NoContainer, [state |-> "running", run |-> 1],
                      [state |-> "stopped", run |-> 1]},
       hasDir \in BOOLEAN, log \in BOOLEAN :
        LET deployment == Deployment(id, slug, request.SourceType,
                                     request.BuildCommand, status, expiresAt)
        IN  /\ now = MaxTime
            /\ faults \in {0, MaxFaults}
            /\ main = "serving"
            /\ cancelled = {}
            /\ db = [i \in Ids |-> IF i = id THEN deployment ELSE NoRow]
            /\ nextId = MaxDeployments + 1
            /\ containers = [n \in ContainerNames |->
                                IF n = ContainerName(slug) THEN container
                                ELSE NoContainer]
            /\ assets = [s \in Slugs |-> IF s = slug /\ hasDir THEN Dir(id) ELSE NoDir]
            /\ logs = [s \in Slugs |-> s = slug /\ log]
            /\ runs = <<>>
            /\ reaper = [IdleReaper EXCEPT !.pc = "CleanupContainer",
                                           !.list = <<deployment, deployment>>,
                                           !.idx = 1, !.queriedAt = MaxTime]
            /\ touched = [i \in Ids |-> "untouched"]
            /\ event = NoEvent

NextTeardown ==
    \/ TeardownCleanupContainer
    \/ TeardownCleanupFiles
    \/ TeardownCleanupLogFile
    \/ TeardownDeleteDeployment

SpecTeardown == InitTeardown /\ [][NextTeardown]_vars

\* ------------------------------------------------------------ properties
Exists(id) == db[id] # NoRow
Live(id) == Exists(id) /\ db[id].Status = StatusLive
Running(slug) ==
    /\ containers[ContainerName(slug)] # NoContainer
    /\ containers[ContainerName(slug)].state = "running"
HasContainer(slug) == containers[ContainerName(slug)] # NoContainer
HasDir(slug) == assets[slug] # NoDir
TeardownSteps == {"CleanupContainer", "CleanupFiles", "CleanupLogFile",
                  "DeleteDeployment"}

\* Row, container and asset directory of the deployment are all gone.
Gone(deployment) ==
    /\ ~Exists(deployment.ID)
    /\ ~HasContainer(deployment.Slug)
    /\ ~HasDir(deployment.Slug)

\* TeardownDeployment has just returned to its caller.
Returned == event.type = "teardown"

\* No pipeline and no teardown is in progress.
Quiescent ==
    /\ \A r \in DOMAIN runs : runs[r].pc = "done"
    /\ reaper.pc = "idle"

C2_StatusMonotonic ==
    \A r \in DOMAIN runs :
        runs[r].writes \in {<<>>, <<StatusDeploying>>,
                            <<StatusDeploying, StatusLive>>,
                            <<StatusDeploying, StatusFailed>>}

\* C2 witness: one run ended live and another ended failed.
C2_Witness ==
    \E r, q \in DOMAIN runs :
        /\ runs[r].pc = "done" /\ runs[r].writes = <<StatusDeploying, StatusLive>>
        /\ runs[q].pc = "done" /\ runs[q].writes = <<StatusDeploying, StatusFailed>>

C5_RowDeletedLast ==
    /\ reaper.pc = "DeleteDeployment"
          => ~HasContainer(Current.Slug) /\ ~HasDir(Current.Slug)
    /\ reaper.pc \in TeardownSteps => db[Current.ID] = Current
    /\ Returned /\ event.errs \cap {"CleanupContainer", "CleanupFiles"} # {}
          => /\ event.err # "nil"
             /\ db[event.deployment.ID] = event.deployment

\* C5 witness: the file removal failed after the container was removed, and
\* the teardown returned.
C5_Witness ==
    /\ Returned /\ event.errs = {"CleanupFiles"}
    /\ ~HasContainer(event.deployment.Slug)
    /\ HasDir(event.deployment.Slug)

\* C6: a failure to remove the log file does not stop the teardown: with the
\* other steps succeeding, the row is deleted and the teardown returns
\* success.
C6_LogRemovalNotFatal ==
    Returned /\ "CleanupLogFile" \in event.errs /\ ~event.injected
        => event.err = "nil" /\ Gone(event.deployment)

\* C6 witness: the log removal failed, the teardown returned, and the log
\* file is still there.
C6_Witness ==
    /\ Returned /\ event.errs = {"CleanupLogFile"} /\ event.err = "nil"
    /\ logs[event.deployment.Slug]

\* C8: a teardown that follows one which stopped after removing the
\* container or the files, and whose own steps all succeed, returns success
\* with row, container and asset directory absent.
C8_RetryAfterPartialTeardown ==
    Returned /\ event.retry \in TeardownSteps /\ ~event.injected
        => event.err = "nil" /\ Gone(event.deployment)

\* C8 witness: the retry of a teardown that had failed at the file removal
\* or at the row delete has returned success.
C8_Witness ==
    /\ Returned /\ event.retry \in {"CleanupFiles", "DeleteDeployment"}
    /\ event.err = "nil"

\* A row the reaper may tear down at time t.
Eligible(deployment, t) ==
    /\ deployment.ExpiresAt # NoExpiry
    /\ deployment.ExpiresAt <= t
    /\ deployment.Status = StatusLive

\* C9: the reaper tears down only rows that had, at its query, an expiration
\* that is set and not after the clock, and the status live; a row without
\* expiration, with a later one, or deploying or failed, is never touched.
C9_ReaperEligibility ==
    /\ \A k \in DOMAIN reaper.list : Eligible(reaper.list[k], reaper.queriedAt)
    /\ Returned => Eligible(event.deployment, event.queriedAt)
    /\ \A id \in Ids :
          Exists(id) /\ ~Eligible(db[id], now) => touched[id] = "untouched"

\* C9 witness: a pass is tearing down an expired live row while another
\* row, live or failed, is not eligible.
C9_Witness ==
    /\ reaper.pc \in TeardownSteps
    /\ \E id \in Ids :
          /\ Exists(id) /\ id # Current.ID
          /\ ~Eligible(db[id], now)
          /\ db[id].Status \in {StatusLive, StatusFailed}

\* The second of two teardowns of one deployment has returned, the first
\* having returned success.
SecondAfterSuccess ==
    Returned /\ event.call = 2 /\ event.earlier = <<"nil">>

\* Nothing of any deployment is left in the store, the runtime or the asset
\* root.
NothingLeft ==
    /\ \A id \in Ids : ~Exists(id)
    /\ \A slug \in Slugs : ~HasContainer(slug) /\ ~HasDir(slug)

\* C7, as stated: a second teardown of a deployment, after a first that
\* succeeded, returns success too and changes nothing (the runtime, the
\* filesystem and the store themselves not failing under it).
C7_SecondTeardownSucceeds ==
    SecondAfterSuccess /\ ~event.injected => event.err = "nil" /\ NothingLeft

\* C7, amended: a second teardown of a deployment, after a first that
\* succeeded, leaves the store, the containers and the asset directories as
\* they were, and returns an error: the store's delete finds no row.
C7_SecondTeardownChangesNothing ==
    SecondAfterSuccess =>
        /\ NothingLeft
        /\ event.err # "nil"
        /\ ~event.injected =>
              event.step = "DeleteDeployment" /\ event.err = "ErrRecordNotFound"

\* C7 witness: the second teardown ran all its steps and returned the
\* store's not-found error.
C7_Witness ==
    /\ SecondAfterSuccess
    /\ event.step = "DeleteDeployment" /\ event.err = "ErrRecordNotFound"
    /\ reaper.pc = "idle"

\* The rows a query at this moment has to return.
EligibleNow == {db[id] : id \in {i \in Ids : Exists(i) /\ Eligible(db[i], now)}}

\* The teardown of deployment id has returned success and nothing of it is
\* left.
TornDown(id) ==
    /\ Returned /\ event.deployment.ID = id /\ event.err = "nil"
    /\ Gone(event.deployment)

Created == event.type = "http" /\ event.op = "CreateDeployment" /\ event.code = 201

\* C11: every deployment created through the create request carries an
\* expiration: the row the handler inserted has a non-null expires_at, later
\* than the time of its creation.
C11_CreatedRowExpires ==
    Created => /\ db[event.id].ExpiresAt # NoExpiry
               /\ db[event.id].ExpiresAt > now

\* ------------------------------------------------------------------ C12
\* This step is the return of the teardown the pass is working on.
TeardownReturns ==
    /\ reaper.pc \in TeardownSteps
    /\ event'.type = "teardown"
    /\ event'.call = reaper.idx
    /\ event'.deployment = Current
    /\ event'.earlier = reaper.results

\* C12: one bad row does not halt the reaper.  Whatever a teardown of the
\* pass returns, the pass goes on to invoke the teardown of the next
\* deployment of its query result, so that every deployment of the result
\* is handed to a teardown; after the last one the goroutine waits for the
\* next tick, where it runs another pass.
C12_ReaperContinues ==
    /\ [](reaper.pc \in TeardownSteps =>
            /\ reaper.idx \in 1..Len(reaper.list)
            /\ Len(reaper.results) = reaper.idx - 1)
    /\ [][TeardownReturns =>
            IF reaper.idx < Len(reaper.list)
            THEN /\ reaper'.pc = "CleanupContainer"
                 /\ reaper'.list = reaper.list
                 /\ reaper'.idx = reaper.idx + 1
                 /\ reaper'.results = Append(reaper.results, event'.err)
            ELSE reaper' = IdleReaper]_vars
    /\ [](reaper.pc = "idle" => ENABLED ReaperTick)

\* The teardown of the second deployment of a pass has been invoked after
\* the teardown of the first one returned an error.
C12_Witness ==
    /\ reaper.pc \in TeardownSteps
    /\ reaper.idx = 2
    /\ reaper.results[1] # "nil"
    /\ reaper.list[1].ID # reaper.list[2].ID

\* ------------------------------------------------------------------ C13
\* The deployments of the passes: one for each slug.
PassIds == {i \in Ids : i <= Cardinality(Slugs)}

\* The reaper alone, from the query of a first pass on: the clock stands
\* still and no handler and no pipeline runs, so no deployment becomes
\* expired and live after that query.  The rows, containers, directories
\* and log files are whatever handlers, pipelines, earlier teardowns and
\* the operator's own docker commands may have left.
InitPasses ==
    \E rows \in [PassIds -> {"none", StatusLive, StatusFailed}],
       expiries \in [PassIds -> RequestExpiresAt(0)],
       cs \in [PassIds -> {NoContainer, [state |-> "running", run |-> 1],
                           [state |-> "stopped", run |-> 1]}],
       dirs \in [PassIds -> BOOLEAN], files \in [PassIds -> BOOLEAN] :
        LET slugOf == [i \in PassIds |-> IF i = 1 THEN "swift-hawk" ELSE "calm-fox"]
            idOf == [s \in Slugs |-> IF s = "swift-hawk" THEN 1 ELSE 2]
            table == [i \in Ids |->
                        IF i \notin PassIds \/ rows[i] = "none" THEN NoRow
                        ELSE Deployment(i, slugOf[i], SourceZip, "", rows[i],
                                        expiries[i])]
        IN  /\ now = MaxTime
            /\ faults \in {0, MaxFaults}
            /\ main = "serving"
            /\ cancelled = {}
            /\ db = table
            /\ nextId = MaxDeployments + 1
            /\ containers = [n \in ContainerNames |->
                                LET s == CHOOSE t \in Slugs : ContainerName(t) = n
                                IN  cs[idOf[s]]]
            /\ assets = [s \in Slugs |-> IF dirs[idOf[s]] THEN Dir(idOf[s]) ELSE NoDir]
            /\ logs = [s \in Slugs |-> files[idOf[s]]]
            /\ runs = <<>>
            /\ \E list \in Orderings(ListExpiredDeployments(table, MaxTime)) :
                  reaper = IF list = <<>> THEN IdleReaper
                           ELSE [IdleReaper EXCEPT !.pc = "CleanupContainer",
                                                   !.list = list, !.idx = 1,
                                                   !.queriedAt = MaxTime]
            /\ touched = [i \in Ids |-> "untouched"]
            /\ event = NoEvent

NextPasses ==
    \/ ReaperTick
    \/ TeardownCleanupContainer
    \/ TeardownCleanupFiles
    \/ TeardownCleanupLogFile
    \/ TeardownDeleteDeployment

SpecPasses == InitPasses /\ [][NextPasses]_vars

\* Every teardown so far has returned success.
NoTeardownFailed == \A id \in Ids : touched[id] \in {"untouched", "tornDown"}

PipelineSteps == {"ExtractZipUpload", "cloneGitHubRepo",
                  "RunEphemeralBuildContainer", "deployToNginx",
                  "StopAndRemoveContainer", "CreateAndStartNginxContainer"}

\* In this step run r leaves a pipeline step with an error: it ends there
\* (a run that goes on ends at the live write).
StepFails(r) ==
    /\ runs[r].pc \in PipelineSteps
    /\ runs'[r].pc = "done"

\* The store is working in this step: no call fails in it at all (the step
\* ended on a container name in use), or one call fails and that is the
\* step's own (without a name in use a step ends only on a failed call).
StoreWorks(r) ==
    LET name == ContainerName(runs[r].deployment.Slug)
        nameInUse == /\ runs[r].pc = "CreateAndStartNginxContainer"
                     /\ containers[name] # NoContainer
    IN  \/ faults' = faults
        \/ faults' = faults + 1 /\ ~nameInUse

\* C14: any pipeline error becomes status failed.  A run whose staging,
\* build, copy, container removal or container start fails calls
\* UpdateStatus(id, failed) as its next and last write, with the store
\* working the row is failed after it, and the run performs no step after
\* that: a finished run never moves again.
C14_PipelineErrorBecomesFailed ==
    /\ [][\A r \in DOMAIN runs :
            StepFails(r) =>
                /\ runs'[r].writes = Append(runs[r].writes, StatusFailed)
                /\ StoreWorks(r) => db'[runs[r].deployment.ID].Status = StatusFailed]_vars
    /\ [][\A r \in DOMAIN runs :
            runs[r].pc = "done" => runs'[r] = runs[r]]_vars

\* C14 witness: a run has ended at a failed start of the serving container,
\* after the copy: its writes are deploying and failed, the row is failed,
\* the files are published and no container runs.
C14_Witness ==
    \E r \in DOMAIN runs :
        LET d == runs[r].deployment
        IN  /\ runs[r].pc = "done"
            /\ runs[r].writes = <<StatusDeploying, StatusFailed>>
            /\ Exists(d.ID) /\ db[d.ID].Status = StatusFailed
            /\ assets[d.Slug] = Dir(d.ID)
            /\ ~Running(d.Slug)

\* ------------------------------------------------------------------ C15
\* In this step the live write of run r fails.
MarkLiveFails(r) ==
    /\ runs[r].pc = "UpdateStatusLive"
    /\ runs'[r] # runs[r]
    /\ faults' = faults + 1

\* C15: a failed live write keeps the site up.  When the serving container
\* has been started and UpdateStatus(id, live) fails, the run ends without
\* touching the containers or the asset directories and without writing
\* failed: the row keeps the status it had.
C15_MarkLiveFailureKeepsSite ==
    [][\A r \in DOMAIN runs :
          MarkLiveFails(r) =>
              /\ UNCHANGED <<containers, assets, db>>
              /\ runs'[r].pc = "done"
              /\ runs'[r].writes = Append(runs[r].writes, StatusLive)
              /\ \A k \in DOMAIN runs'[r].writes :
                    runs'[r].writes[k] # StatusFailed]_vars

\* C15 witness: a run has ended at a failed live write; its container is
\* running and its files are published while the row is still deploying.
C15_Witness ==
    \E r \in DOMAIN runs :
        LET d == runs[r].deployment
        IN  /\ runs[r].pc = "done"
            /\ runs[r].writes = <<StatusDeploying, StatusLive>>
            /\ Exists(d.ID) /\ db[d.ID].Status = StatusDeploying
            /\ Running(d.Slug)
            /\ assets[d.Slug] = Dir(d.ID)

\* ------------------------------------------ one pipeline run, step by step
\* DeployZipUpload and DeployGitHub with what they hold while they run: the
\* log file handle, the upload stream, the temporary archive, the working
\* directory <tempRoot>/corvus-build-<id>, the deferred calls and the build
\* container.  deployToNginx is the four steps of the specification above.
NoBuild == [called |-> FALSE, err |-> "nil", created |-> FALSE,
            container |-> "none", removeFailed |-> FALSE,
            exited |-> FALSE, exitCode |-> 0]

\* Exit codes of the build command that are tried.
ExitCodes == {0, 1}

BuildOutcomes == IF faulty THEN {"ok", "pullFail", "createFail", "startFail", "waitFail"}
                           ELSE {"ok"}

\* Variant: the container is removed at the end of the success path only.
RunEphemeralBuildContainer_RemoveAtEnd(outcome, exitCode, failRemove) ==
    IF outcome \in {"pullFail", "createFail"}
    THEN [NoBuild EXCEPT !.called = TRUE, !.err = "RuntimeError"]
    ELSE IF outcome = "startFail"
    THEN [NoBuild EXCEPT !.called = TRUE, !.err = "RuntimeError", !.created = TRUE,
                         !.container = "created"]
    ELSE IF outcome = "waitFail"
    THEN [NoBuild EXCEPT !.called = TRUE, !.err = "RuntimeError", !.created = TRUE,
                         !.container = "running"]
    ELSE [called |-> TRUE,
          err |-> IF exitCode # 0 THEN "BuildFailed" ELSE "nil",
          created |-> TRUE,
          container |-> IF failRemove \/ exitCode # 0 THEN "exited" ELSE "removed",
          removeFailed |-> failRemove,
          exited |-> TRUE, exitCode |-> exitCode]

\* dockerClient.RunEphemeralBuildContainer: pull, ContainerCreate, the
\* deferred forced ContainerRemove (a failure of it only warns), then
\* ContainerStart, ContainerWait, ContainerLogs (a failure only warns) and
\* the test of the exit code.  The result is the error returned and the
\* container as it is at the return.
RunEphemeralBuildContainer(outcome, exitCode, failRemove) ==
    IF outcome \in {"pullFail", "createFail"}
    THEN [NoBuild EXCEPT !.called = TRUE, !.err = "RuntimeError"]
    ELSE IF outcome = "startFail"
    THEN [NoBuild EXCEPT !.called = TRUE, !.err = "RuntimeError", !.created = TRUE,
                         !.container = IF failRemove THEN "created" ELSE "removed",
                         !.removeFailed = failRemove]
    ELSE IF outcome = "waitFail"
    THEN [NoBuild EXCEPT !.called = TRUE, !.err = "RuntimeError", !.created = TRUE,
                         !.container = IF failRemove THEN "running" ELSE "removed",
                         !.removeFailed = failRemove]
    ELSE [called |-> TRUE,
          err |-> IF exitCode # 0 THEN "BuildFailed" ELSE "nil",
          created |-> TRUE,
          container |-> IF failRemove THEN "exited" ELSE "removed",
          removeFailed |-> failRemove,
          exited |-> TRUE, exitCode |-> exitCode]

\* The create requests of the run: those of Requests and a zip upload that
\* names a build command (the handler takes build_command from the form
\* whatever the source type).
RunRequests == Requests \cup {[SourceType |-> SourceZip, BuildCommand |-> "npm run build"]}

\* The goroutine as the create handler launches it.
NewRunInDetail(deployment, kind) ==
    NewRun(deployment, kind) @@
    [logFile |-> "nil",
     stream |-> IF kind = "DeployZipUpload" THEN "open" ELSE "none",
     archive |-> "none", workdir |-> FALSE, defers |-> <<>>,
     warned |-> {}, build |-> NoBuild]

\* The run is the one the create handler launched, or (GitHub only) the
\* redeploy of a live deployment, whose container, files and log exist.
InitRun ==
    \E id \in Ids, slug \in Slugs, request \in RunRequests, redeploy \in BOOLEAN :
        LET deployment == Deployment(id, slug, request.SourceType,
                                     request.BuildCommand,
                                     IF redeploy THEN StatusLive ELSE StatusDeploying,
                                     NoExpiry)
        IN  /\ redeploy => request.SourceType = SourceGitHub
            /\ now = 0
            /\ faults \in {0, MaxFaults}
            /\ main = "serving"
            /\ cancelled = {}
            /\ db = [i \in Ids |-> IF i = id THEN deployment ELSE NoRow]
            /\ nextId = id + 1
            /\ containers = [n \in ContainerNames |->
                                IF redeploy /\ n = ContainerName(slug)
                                THEN [state |-> "running", run |-> 0]
                                ELSE NoContainer]
            /\ assets = [s \in Slugs |->
                            IF redeploy /\ s = slug THEN Dir(id) ELSE NoDir]
            /\ logs = [s \in Slugs |-> redeploy /\ s = slug]
            /\ runs = <<NewRunInDetail(deployment,
                            IF request.SourceType = SourceZip
                            THEN "DeployZipUpload" ELSE "DeployGitHub")>>
            /\ reaper = IdleReaper
            /\ touched = [i \in Ids |-> "untouched"]
            /\ event = NoEvent

\* Variant: the removal of the working directory is not deferred.
DeferRemoveAll_NotDeferred(run) == run.defers

\* `defer func() { os.RemoveAll(tempWorkingDir) }()`
DeferRemoveAll(run) == Append(run.defers, "os.RemoveAll")

\* Variant: a log file that cannot be opened ends the run as failed.
RunStart_LogFatal ==
    \E r \in DOMAIN runs, failLog \in Faults, fail \in Faults :
        LET run == runs[r]
            zip == run.kind = "DeployZipUpload"
            opened == [run EXCEPT
                         !.logFile = IF failLog THEN "nil" ELSE "open",
                         !.defers = (IF failLog THEN <<>> ELSE <<"logFile.Close">>)
                                    \o (IF zip THEN <<"uploadedFile.Close">> ELSE <<>>),
                         !.writes = Append(@, StatusDeploying)]
            updated == UpdateStatus(db, run.deployment.ID, StatusDeploying, fail)
        IN  /\ run.pc = "UpdateStatusDeploying"
            /\ Inject(Count(failLog) + Count(fail))
            /\ logs' = IF failLog THEN logs
                       ELSE [logs EXCEPT ![run.deployment.Slug] = TRUE]
            /\ IF failLog \/ updated.err # "nil"
               THEN /\ db' = UpdateStatus(db, run.deployment.ID, StatusFailed, FALSE).db
                    /\ runs' = [runs EXCEPT ![r] =
                                  [opened EXCEPT !.pc = "done",
                                                 !.writes = Append(@, StatusFailed)]]
               ELSE /\ db' = updated.db
                    /\ runs' = [runs EXCEPT ![r] =
                                  [opened EXCEPT !.pc = IF zip THEN "os.CreateTemp"
                                                        ELSE "cloneGitHubRepo"]]
            /\ event' = NoEvent
            /\ UNCHANGED <<main, cancelled, now, nextId, containers, assets, reaper, touched>>

\* openLogFileForCurrentDeployment, `defer logFile.Close()` when it opened,
\* `defer uploadedFile.Close()` (zip), UpdateStatus(id, deploying).
RunStart ==
    \E r \in DOMAIN runs, failLog \in Faults, fail \in Faults :
        LET run == runs[r]
            zip == run.kind = "DeployZipUpload"
            opened == [run EXCEPT
                         !.logFile = IF failLog THEN "nil" ELSE "open",
                         !.defers = (IF failLog THEN <<>> ELSE <<"logFile.Close">>)
                                    \o (IF zip THEN <<"uploadedFile.Close">> ELSE <<>>),
                         !.writes = Append(@, StatusDeploying)]
            updated == UpdateStatus(db, run.deployment.ID, StatusDeploying, fail)
        IN  /\ run.pc = "UpdateStatusDeploying"
            /\ Inject(Count(failLog) + Count(fail))
            /\ logs' = IF failLog THEN logs
                       ELSE [logs EXCEPT ![run.deployment.Slug] = TRUE]
            /\ IF updated.err # "nil"
               THEN /\ db' = UpdateStatus(db, run.deployment.ID, StatusFailed, FALSE).db
                    /\ runs' = [runs EXCEPT ![r] =
                                  [opened EXCEPT !.pc = "done",
                                                 !.writes = Append(@, StatusFailed)]]
               ELSE /\ db' = updated.db
                    /\ runs' = [runs EXCEPT ![r] =
                                  [opened EXCEPT !.pc = IF zip THEN "os.CreateTemp"
                                                        ELSE "cloneGitHubRepo"]]
            /\ event' = NoEvent
            /\ UNCHANGED <<main, cancelled, now, nextId, containers, assets, reaper, touched>>

\* os.CreateTemp("", "corvus-upload-*.zip") and `defer os.Remove(name)`
RunCreateTemp ==
    \E r \in DOMAIN runs, fail \in Faults :
        /\ runs[r].pc = "os.CreateTemp"
        /\ Inject(Count(fail))
        /\ IF fail
           THEN LET failed == logFailureAndUpdateStatus(r, db, FALSE)
                IN  db' = failed.db /\ runs' = failed.runs
           ELSE /\ runs' = [runs EXCEPT ![r].pc = "io.Copy",
                                        ![r].archive = "exists",
                                        ![r].defers = Append(@, "os.Remove")]
                /\ UNCHANGED db
        /\ event' = NoEvent
        /\ UNCHANGED <<main, cancelled, now, nextId, containers, assets, logs, reaper, touched>>

\* io.Copy(tempZipFileForExtraction, uploadedFile), Close of the archive
RunCopyUpload ==
    \E r \in DOMAIN runs, fail \in Faults :
        /\ runs[r].pc = "io.Copy"
        /\ Inject(Count(fail))
        /\ IF fail
           THEN LET failed == logFailureAndUpdateStatus(r, db, FALSE)
                IN  db' = failed.db /\ runs' = failed.runs
           ELSE /\ runs' = [runs EXCEPT ![r].pc = "ExtractZipUpload"]
                /\ UNCHANGED db
        /\ event' = NoEvent
        /\ UNCHANGED <<main, cancelled, now, nextId, containers, assets, logs, reaper, touched>>

\* The deferred removal of the working directory, then ExtractZipUpload
\* into it; a failed extraction may leave a part of the directory.  The zip
\* pipeline goes on to deployToNginx: it has no build step.
RunExtractZip ==
    \E r \in DOMAIN runs, fail \in Faults, partly \in BOOLEAN :
        /\ runs[r].pc = "ExtractZipUpload"
        /\ Inject(Count(fail))
        /\ fail \/ ~partly
        /\ IF fail
           THEN LET failed == logFailureAndUpdateStatus(r, db, FALSE)
                IN  /\ db' = failed.db
                    /\ runs' = [failed.runs EXCEPT ![r].workdir = partly,
                                                   ![r].defers = DeferRemoveAll(runs[r])]
           ELSE /\ runs' = [runs EXCEPT ![r].pc = "deployToNginx",
                                        ![r].workdir = TRUE,
                                        ![r].defers = DeferRemoveAll(runs[r])]
                /\ UNCHANGED db
        /\ event' = NoEvent
        /\ UNCHANGED <<main, cancelled, now, nextId, containers, assets, logs, reaper, touched>>

\* Variant: the clone step takes the serving container down first.
RunClone_StopsOld ==
    \E r \in DOMAIN runs, fail \in Faults, partly \in BOOLEAN :
        /\ runs[r].pc = "cloneGitHubRepo"
        /\ Inject(Count(fail))
        /\ fail \/ ~partly
        /\ IF fail
           THEN LET failed == logFailureAndUpdateStatus(r, db, FALSE)
                IN  /\ db' = failed.db
                    /\ runs' = [failed.runs EXCEPT ![r].workdir = partly,
                                                   ![r].defers = DeferRemoveAll(runs[r])]
           ELSE /\ runs' = [runs EXCEPT ![r].pc =
                                  IF runs[r].deployment.BuildCommand # ""
                                  THEN "RunEphemeralBuildContainer" ELSE "deployToNginx",
                                        ![r].workdir = TRUE,
                                        ![r].defers = DeferRemoveAll(runs[r])]
                /\ UNCHANGED db
        /\ event' = NoEvent
        /\ containers' = StopAndRemoveContainer(containers,
                             ContainerName(runs[r].deployment.Slug), "ok").containers
        /\ UNCHANGED <<main, cancelled, now, nextId, assets, logs, reaper, touched>>

\* The deferred removal of the working directory, then cloneGitHubRepo into
\* it; after the clone the build, if deployment.BuildCommand != "".
RunClone ==
    \E r \in DOMAIN runs, fail \in Faults, partly \in BOOLEAN :
        /\ runs[r].pc = "cloneGitHubRepo"
        /\ Inject(Count(fail))
        /\ fail \/ ~partly
        /\ IF fail
           THEN LET failed == logFailureAndUpdateStatus(r, db, FALSE)
                IN  /\ db' = failed.db
                    /\ runs' = [failed.runs EXCEPT ![r].workdir = partly,
                                                   ![r].defers = DeferRemoveAll(runs[r])]
           ELSE /\ runs' = [runs EXCEPT ![r].pc =
                                  IF runs[r].deployment.BuildCommand # ""
                                  THEN "RunEphemeralBuildContainer" ELSE "deployToNginx",
                                        ![r].workdir = TRUE,
                                        ![r].defers = DeferRemoveAll(runs[r])]
                /\ UNCHANGED db
        /\ event' = NoEvent
        /\ UNCHANGED <<main, cancelled, now, nextId, containers, assets, logs, reaper, touched>>

\* decodeEnvVarsToSlice, then RunEphemeralBuildContainer("building-" + slug)
RunBuild ==
    \E r \in DOMAIN runs, failDecode \in Faults, outcome \in BuildOutcomes,
       exitCode \in ExitCodes, failRemove \in Faults :
        LET built == RunEphemeralBuildContainer(
                         IF Done(deployContext) THEN "pullFail" ELSE outcome,
                         exitCode, failRemove)
        IN  /\ runs[r].pc = "RunEphemeralBuildContainer"
            /\ Inject(Count(failDecode) + Count(outcome # "ok") + Count(failRemove))
            /\ failDecode => outcome = "ok" /\ exitCode = 0 /\ ~failRemove
            /\ failRemove => outcome \notin {"pullFail", "createFail"}
            /\ IF failDecode
               THEN LET failed == logFailureAndUpdateStatus(r, db, FALSE)
                    IN  db' = failed.db /\ runs' = failed.runs
               ELSE IF built.err # "nil"
               THEN LET failed == logFailureAndUpdateStatus(r, db, FALSE)
                    IN  /\ db' = failed.db
                        /\ runs' = [failed.runs EXCEPT ![r].build = built]
               ELSE /\ runs' = [runs EXCEPT ![r].pc = "deployToNginx",
                                            ![r].build = built]
                    /\ UNCHANGED db
            /\ event' = NoEvent
            /\ UNCHANGED <<main, cancelled, now, nextId, containers, assets, logs, reaper, touched>>

\* Whether call d has been deferred by the run.
Deferred(run, d) == \E k \in DOMAIN run.defers : run.defers[k] = d

\* The function returns: the deferred calls run, last one first.  A failure
\* of os.RemoveAll only warns, the result of os.Remove is dropped.
RunReturn ==
    \E r \in DOMAIN runs, failDir \in Faults, failZip \in Faults :
        LET run == runs[r]
        IN  /\ run.pc = "done"
            /\ Inject(Count(failDir) + Count(failZip))
            /\ failDir => Deferred(run, "os.RemoveAll") /\ run.workdir
            /\ failZip => Deferred(run, "os.Remove")
            /\ runs' = [runs EXCEPT ![r] = [run EXCEPT
                  !.pc = "returned",
                  !.defers = <<>>,
                  !.workdir = IF Deferred(run, "os.RemoveAll") /\ ~failDir
                              THEN FALSE ELSE @,
                  !.archive = IF Deferred(run, "os.Remove") /\ ~failZip
                              THEN "removed" ELSE @,
                  !.stream = IF Deferred(run, "uploadedFile.Close")
                             THEN "closed" ELSE @,
                  !.logFile = IF Deferred(run, "logFile.Close")
                              THEN "closed" ELSE @,
                  !.warned = (IF failDir THEN {"os.RemoveAll"} ELSE {})
                             \cup (IF failZip THEN {"os.Remove"} ELSE {})]]
            /\ event' = NoEvent
            /\ UNCHANGED <<main, cancelled, now, db, nextId, containers, assets, logs, reaper, touched>>

NextRun ==
    \/ RunStart
    \/ RunCreateTemp
    \/ RunCopyUpload
    \/ RunExtractZip
    \/ RunClone
    \/ RunBuild
    \/ PipelinePublishFiles
    \/ PipelineStopOld
    \/ PipelineStartNginx
    \/ PipelineMarkLive
    \/ RunReturn

SpecRun == InitRun /\ [][NextRun]_vars

\* ------------------------------------------------------------------ C16
\* C16: cleanup on every exit path.  When a pipeline run has returned, on
\* success or after any failure, the working directory is gone and the
\* temporary archive, if one was created, is gone (each unless its removal
\* itself failed, which the run only logs), the upload stream is closed and
\* the log file, if it could be opened, is closed.
C16_CleanupOnEveryExit ==
    \A r \in DOMAIN runs :
        runs[r].pc = "returned" =>
            /\ runs[r].workdir => "os.RemoveAll" \in runs[r].warned
            /\ runs[r].archive = "exists" => "os.Remove" \in runs[r].warned
            /\ runs[r].stream # "open"
            /\ runs[r].logFile # "open"

\* C16 witness: a run has returned after a failed step of deployToNginx,
\* having had a working directory, an archive, an open stream and an open
\* log file; all four are gone or closed.
C16_Witness ==
    \E r \in DOMAIN runs :
        /\ runs[r].pc = "returned"
        /\ runs[r].writes = <<StatusDeploying, StatusFailed>>
        /\ assets[runs[r].deployment.Slug] = Dir(runs[r].deployment.ID)
        /\ ~runs[r].workdir
        /\ runs[r].archive = "removed"
        /\ runs[r].stream = "closed"
        /\ runs[r].logFile = "closed"
        /\ runs[r].warned = {}

\* ------------------------------------------------------------------ C17
\* The run has come to the publish step or beyond it.
Publishing(run) ==
    run.pc \in {"deployToNginx", "StopAndRemoveContainer",
                "CreateAndStartNginxContainer", "UpdateStatusLive"}

\* C17: the build step runs exactly when the build command is non-empty,
\* whatever the source kind: a run that has come to the publish step has
\* run the build container if and only if its deployment names a build
\* command, and a build that exited with a non-zero code ends the run with
\* the failed write and nothing published.
C17_BuildIffCommand ==
    \A r \in DOMAIN runs :
        LET run == runs[r]
        IN  /\ Publishing(run) =>
                (run.build.called <=> run.deployment.BuildCommand # "")
            /\ run.build.exited /\ run.build.exitCode # 0 =>
                /\ run.pc \in {"done", "returned"}
                /\ run.writes = <<StatusDeploying, StatusFailed>>
                /\ assets[run.deployment.Slug] = NoDir

\* ------------------------------------------------------------------ C18
\* C18: the build container never outlives the build step.  Once
\* RunEphemeralBuildContainer has created the container, the container is
\* removed when the function has returned, on the paths of a start failure,
\* a wait failure, a non-zero exit and success alike (unless the removal
\* call itself failed, which only warns); and the function returns success
\* if and only if the container exited with code 0.
C18_BuildContainerRemoved ==
    \A r \in DOMAIN runs :
        LET build == runs[r].build
        IN  build.called =>
              /\ build.created /\ ~build.removeFailed => build.container = "removed"
              /\ ~build.created => build.container = "none"
              /\ build.err = "nil" <=> (build.exited /\ build.exitCode = 0)

\* C18 witness: the build command exited with a non-zero code; the
\* function returned an error and the container is removed.
C18_Witness ==
    \E r \in DOMAIN runs :
        LET build == runs[r].build
        IN  /\ build.called /\ build.created
            /\ build.exited /\ build.exitCode # 0
            /\ build.err # "nil"
            /\ build.container = "removed"

\* ------------------------------------------------------------------ C19
\* In this step run r comes to step pc.
Enters(r, pc) == runs[r].pc # pc /\ runs'[r].pc = pc

\* C19: publish ordering.  The steps of a run follow each other in source
\* order: StopAndRemoveContainer is called only when the copy into the
\* asset directory has just succeeded, CreateAndStartNginxContainer only
\* when StopAndRemoveContainer has just returned success (the name is
\* free), and the live write is made only when CreateAndStartNginxContainer
\* has just returned success (the run's container is running).
C19_PublishOrdering ==
    [][\A r \in DOMAIN runs :
          LET d == runs[r].deployment
              name == ContainerName(d.Slug)
          IN  /\ Enters(r, "StopAndRemoveContainer") =>
                    /\ runs[r].pc = "deployToNginx"
                    /\ runs[r].kind # "RedeployExistingZip" => assets'[d.Slug] = Dir(d.ID)
              /\ Enters(r, "CreateAndStartNginxContainer") =>
                    /\ runs[r].pc = "StopAndRemoveContainer"
                    /\ containers'[name] = NoContainer
              /\ Enters(r, "UpdateStatusLive") =>
                    /\ runs[r].pc = "CreateAndStartNginxContainer"
                    /\ containers'[name] = [state |-> "running", run |-> r]
              /\ runs'[r].writes # runs[r].writes
                 /\ runs'[r].writes[Len(runs'[r].writes)] = StatusLive =>
                    runs[r].pc = "UpdateStatusLive"]_vars

\* C19 witness: a run has made the live write; its files are published and
\* its container is running.
C19_Witness ==
    \E r \in DOMAIN runs :
        LET d == runs[r].deployment
        IN  /\ runs[r].pc = "done"
            /\ runs[r].writes = <<StatusDeploying, StatusLive>>
            /\ Live(d.ID)
            /\ assets[d.Slug] = Dir(d.ID)
            /\ containers[ContainerName(d.Slug)] = [state |-> "running", run |-> r]

RedeployKind(deployment) ==
    IF deployment.SourceType = SourceZip THEN "RedeployExistingZip"
    ELSE "DeployGitHub"

\* One call, or two calls at the same time.
RedeployCalls == {1, 2}

InitRedeploy ==
    \E id \in Ids, slug \in Slugs, request \in Requests,
       status \in {StatusLive, StatusFailed},
       container \in {NoContainer, [state |-> "running", run |-> 0],
                      [state |-> "stopped", run |-> 0]},
       hasDir \in BOOLEAN, neighbour \in BOOLEAN, calls \in RedeployCalls :
        LET deployment == Deployment(id, slug, request.SourceType,
                                     request.BuildCommand, status, NoExpiry)
            other == CHOOSE i \in Ids : i # id
            otherSlug == CHOOSE t \in Slugs : t # slug
        IN  /\ now = 0
            /\ faults \in {0, MaxFaults}
            /\ main = "serving"
            /\ cancelled = {}
            /\ db = [i \in Ids |->
                        IF i = id THEN deployment
                        ELSE IF i = other /\ neighbour
                        THEN Deployment(other, otherSlug, SourceZip, "",
                                        StatusLive, NoExpiry)
                        ELSE NoRow]
            /\ nextId = MaxDeployments + 1
            /\ containers = [n \in ContainerNames |->
                                IF n = ContainerName(slug) THEN container
                                ELSE IF neighbour
                                THEN [state |-> "running", run |-> 0]
                                ELSE NoContainer]
            /\ assets = [s \in Slugs |->
                            IF s = slug THEN (IF hasDir THEN Dir(id) ELSE NoDir)
                            ELSE IF neighbour THEN Dir(other) ELSE NoDir]
            /\ logs = [s \in Slugs |-> s = slug \/ neighbour]
            /\ runs = [r \in 1..calls |-> NewRun(deployment, RedeployKind(deployment))]
            /\ reaper = IdleReaper
            /\ touched = [i \in Ids |-> "untouched"]
            /\ event = NoEvent

NextRedeploy ==
    \/ PipelineStart
    \/ PipelineClone
    \/ PipelineBuild
    \/ PipelinePublishFiles
    \/ PipelineStopOld
    \/ PipelineStartNginx
    \/ PipelineMarkLive

SpecRedeploy == InitRedeploy /\ [][NextRedeploy]_vars

\* Run r makes its CreateAndStartNginxContainer call in this step.
CallsCreate(r) ==
    /\ r \in DOMAIN runs
    /\ runs[r].pc = "CreateAndStartNginxContainer"
    /\ runs'[r].pc # "CreateAndStartNginxContainer"

\* The CreateAndStartNginxContainer call of run r has returned without error.
CreateReturnedNil(r) ==
    /\ r \in DOMAIN runs
    /\ \/ runs[r].pc = "UpdateStatusLive"
       \/ runs[r].pc = "done" /\ runs[r].writes = <<StatusDeploying, StatusLive>>

\* Both pipelines of the same deployment have ended, nothing failed under
\* them and the directory they serve is there: both have made their
\* CreateAndStartNginxContainer call.
BothDone ==
    /\ Len(runs) = 2
    /\ \A r \in DOMAIN runs : runs[r].pc = "done" /\ HasDir(runs[r].deployment.Slug)
    /\ faults = 0
\* ------------------------------------------------------------------ C21
\* C21 as stated: when two pipelines of the same deployment run at the
\* same time, the CreateAndStartNginxContainer call made later gives the
\* running container, and once both have ended without any failure of the
\* store, the runtime or the filesystem the container of the later call is
\* running and the row is live.
C21_LastCallWins ==
    /\ [][\A r, o \in DOMAIN runs :
             r # o /\ CallsCreate(r) /\ CreateReturnedNil(o) /\ faults' = faults
                => containers'[ContainerName(runs[r].deployment.Slug)]
                       = [state |-> "running", run |-> r]]_vars
    /\ [](BothDone => \A r \in DOMAIN runs : Live(runs[r].deployment.ID))

\* C21: a container name is taken by one container.  A
\* CreateAndStartNginxContainer call that finds the container of the other
\* pipeline under the name fails and changes no container, and its pipeline
\* writes failed; the call wins only when the name is free.  Once both
\* pipelines have ended without any failure of the store, the runtime or
\* the filesystem, the running container is the one of a pipeline that
\* wrote live; the status is that of the last write, live or failed.
C21_NameFreeCallWins ==
    /\ [][\A r \in DOMAIN runs :
             CallsCreate(r) /\ faults' = faults =>
                LET name == ContainerName(runs[r].deployment.Slug)
                IN  IF containers[name] = NoContainer
                    THEN /\ containers'[name] = [state |-> "running", run |-> r]
                         /\ runs'[r].pc = "UpdateStatusLive"
                    ELSE /\ containers' = containers
                         /\ runs'[r].pc = "done"
                         /\ runs'[r].writes = <<StatusDeploying, StatusFailed>>
                         /\ db'[runs[r].deployment.ID].Status = StatusFailed]_vars
    /\ [](BothDone
          => \E r \in DOMAIN runs :
                /\ runs[r].writes = <<StatusDeploying, StatusLive>>
                /\ containers[ContainerName(runs[r].deployment.Slug)]
                       = [state |-> "running", run |-> r]
                /\ db[runs[r].deployment.ID].Status \in {StatusLive, StatusFailed})

\* C21 witness: both pipelines have ended and nothing failed under them; the
\* second call found the first pipeline's container under the name, that
\* container is the one running, and the row is failed.
C21_Witness ==
    /\ BothDone
    /\ \E r, o \in DOMAIN runs :
          /\ runs[r].writes = <<StatusDeploying, StatusLive>>
          /\ runs[o].writes = <<StatusDeploying, StatusFailed>>
          /\ containers[ContainerName(runs[r].deployment.Slug)]
                 = [state |-> "running", run |-> r]
          /\ db[runs[r].deployment.ID].Status = StatusFailed

\* ------------------------------------------------------------------ C22
\* The redeploy handler has just answered the request for this id.
RedeployReturned(id) ==
    /\ event.type = "http"
    /\ event.op = "RedeployDeployment"
    /\ event.id = id

C23_RedeployLaunchesOne ==
    [][\A id \in Ids :
          RedeployReturned(id)' =>
             /\ UNCHANGED <<db, containers, assets, logs>>
             /\ IF Exists(id)
                THEN /\ event'.code = 202
                     /\ runs' = Append(runs, NewRun(db[id], RedeployKind(db[id])))
                ELSE /\ event'.code = 404
                     /\ runs' = runs]_vars

\* ------------------------------------------------------------------ C24
\* Run r is a RedeployExistingZip call.
RedeploysZip(r) == r \in DOMAIN runs /\ runs[r].kind = "RedeployExistingZip"

\* C24: RedeployExistingZip never writes or removes anything under
\* <assetRoot>/<slug>: no step of it changes a directory.  When the
\* directory is missing at its check the run ends there, failed is written
\* (if the store takes the write) and no container is stopped, removed or
\* created by the run.  When the directory is there the run goes on to stop
\* and remove the old container and to start a new one on the same
\* directory, and a single run under which nothing fails ends with its own
\* container running, the old one gone, and the row live.
C24_RedeployExistingZip ==
    /\ [][\A r \in DOMAIN runs :
             RedeploysZip(r) /\ runs'[r] # runs[r] =>
                LET slug == runs[r].deployment.Slug
                    id == runs[r].deployment.ID
                IN  /\ assets' = assets
                    /\ runs[r].pc = "deployToNginx" /\ ~HasDir(slug) =>
                          /\ runs'[r].pc = "done"
                          /\ runs'[r].writes = <<StatusDeploying, StatusFailed>>
                          /\ containers' = containers
                          /\ faults' = faults => db'[id].Status = StatusFailed
                    /\ runs[r].pc = "deployToNginx" /\ HasDir(slug) =>
                          /\ runs'[r].pc = "StopAndRemoveContainer"
                          /\ containers' = containers /\ db' = db
                    /\ runs[r].pc = "StopAndRemoveContainer" /\ faults' = faults =>
                          /\ ~HasContainer(slug)'
                          /\ runs'[r].pc = "CreateAndStartNginxContainer"
                    /\ runs[r].pc = "CreateAndStartNginxContainer"
                       /\ faults' = faults /\ ~HasContainer(slug) =>
                          /\ containers'[ContainerName(slug)]
                                 = [state |-> "running", run |-> r]
                          /\ runs'[r].pc = "UpdateStatusLive"
                    /\ \A n \in ContainerNames :
                          n # ContainerName(slug) => containers'[n] = containers[n]]_vars
    /\ [](Len(runs) = 1 /\ RedeploysZip(1) /\ runs[1].pc = "done" /\ faults = 0 =>
             LET slug == runs[1].deployment.Slug
                 id == runs[1].deployment.ID
             IN  IF HasDir(slug)
                 THEN /\ containers[ContainerName(slug)]
                             = [state |-> "running", run |-> 1]
                      /\ Live(id)
                      /\ runs[1].writes = <<StatusDeploying, StatusLive>>
                 ELSE /\ db[id].Status = StatusFailed
                      /\ (HasContainer(slug) =>
                             containers[ContainerName(slug)].run = 0))

\* C24 witness: a RedeployExistingZip run has ended; the directory still
\* holds the files of the deployment, the container the run started is
\* running and the row is live.
C24_Witness ==
    /\ Len(runs) = 1 /\ RedeploysZip(1)
    /\ runs[1].pc = "done"
    /\ runs[1].writes = <<StatusDeploying, StatusLive>>
    /\ assets[runs[1].deployment.Slug] = Dir(runs[1].deployment.ID)
    /\ containers[ContainerName(runs[1].deployment.Slug)]
           = [state |-> "running", run |-> 1]
    /\ Live(runs[1].deployment.ID)

\* ------------------------------------------------------------------ C25
\* The create handler answers the request in this step.
CreateReturns ==
    /\ event'.type = "http"
    /\ event'.op = "CreateDeployment"
    /\ <<db, runs, nextId, faults>>' # <<db, runs, nextId, faults>>

\* C25: the create handler inserts the row with status deploying and only
\* then launches the pipeline, and launches it only when the insert
\* succeeded.  It returns without waiting for any step of the pipeline: at
\* its 201 the row is stored as deploying and the one goroutine it launched
\* has not yet made its first status write.  When the insert fails no row is
\* stored and nothing is launched.  The inserted row is in the store before
\* the first status write of its pipeline.
C25_InsertThenLaunch ==
    [][\A id \in Ids :
             CreateReturns /\ event'.id = id =>
                 IF event'.code = 201
                 THEN /\ ~Exists(id) /\ Exists(id)'
                      /\ db'[id].Status = StatusDeploying
                      /\ \A i \in Ids \ {id} : db'[i] = db[i]
                      /\ Len(runs') = Len(runs) + 1
                      /\ \A r \in DOMAIN runs : runs'[r] = runs[r]
                      /\ runs'[Len(runs')] =
                            [deployment |-> db'[id],
                             kind |-> IF db'[id].SourceType = SourceZip
                                      THEN "DeployZipUpload" ELSE "DeployGitHub",
                             pc |-> "UpdateStatusDeploying", writes |-> <<>>]
                 ELSE /\ event'.code = 500
                      /\ db' = db /\ runs' = runs]_vars

\* C25 witness: the handler has answered 201; the row it inserted reads
\* deploying and its pipeline has not made a step.
C25_Witness ==
    \E id \in Ids, r \in DOMAIN runs :
        /\ event = Http("CreateDeployment", id, 201)
        /\ Exists(id) /\ db[id].Status = StatusDeploying
        /\ runs[r].deployment = db[id]
        /\ runs[r].pc = "UpdateStatusDeploying"
        /\ runs[r].writes = <<>>

\* ------------------------------ pipelines, requests and shutdown (main.go)
\* A deployment has just been created: its row is stored as deploying and
\* the create handler has launched its pipeline.  The context of the request
\* is cancelled when the handler has returned or the client has gone away;
\* the shutdown signal may come at any time.
InitContexts ==
    \E id \in Ids, slug \in Slugs, request \in Requests :
        LET deployment == Deployment(id, slug, request.SourceType,
                                     request.BuildCommand, StatusDeploying, NoExpiry)
        IN  /\ now = 0
            /\ faults \in {0, MaxFaults}
            /\ main = "serving"
            /\ cancelled = {}
            /\ db = [i \in Ids |-> IF i = id THEN deployment ELSE NoRow]
            /\ nextId = id + 1
            /\ containers = [n \in ContainerNames |-> NoContainer]
            /\ assets = [s \in Slugs |-> NoDir]
            /\ logs = [s \in Slugs |-> FALSE]
            /\ runs = <<NewRun(deployment,
                            IF request.SourceType = SourceZip
                            THEN "DeployZipUpload" ELSE "DeployGitHub")>>
            /\ reaper = IdleReaper
            /\ touched = [i \in Ids |-> "untouched"]
            /\ event = Http("CreateDeployment", id, 201)

\* net/http cancels the context of a request when its handler returns or
\* its connection closes.
CancelRequest ==
    /\ ~Done(requestContext)
    /\ cancelled' = cancelled \cup {requestContext}
    /\ event' = NoEvent
    /\ UNCHANGED <<main, now, faults, db, nextId, containers, assets, logs,
                   runs, reaper, touched>>

\* main: SIGINT or SIGTERM arrives on signalChannel and main goes on to
\* server.Shutdown with a ten second timeout.  It cancels no context.
ShutdownSignal ==
    /\ main = "serving"
    /\ main' = "Shutdown"
    /\ event' = NoEvent
    /\ UNCHANGED <<cancelled, now, faults, db, nextId, containers, assets,
                   logs, runs, reaper, touched>>

NextContexts ==
    \/ CancelRequest
    \/ ShutdownSignal
    \/ PipelineStart
    \/ PipelineExtractZip
    \/ PipelineClone
    \/ PipelineBuild
    \/ PipelinePublishFiles
    \/ PipelineStopOld
    \/ PipelineStartNginx
    \/ PipelineMarkLive

SpecContexts == InitContexts /\ [][NextContexts]_vars

\* The pipeline goroutine is scheduled and the calls it makes return.
FairSpecContexts ==
    /\ SpecContexts
    /\ WF_vars(PipelineStart)
    /\ WF_vars(PipelineExtractZip)
    /\ WF_vars(PipelineClone)
    /\ WF_vars(PipelineBuild)
    /\ WF_vars(PipelinePublishFiles)
    /\ WF_vars(PipelineStopOld)
    /\ WF_vars(PipelineStartNginx)
    /\ WF_vars(PipelineMarkLive)

\* ------------------------------------------------------------------ C26
\* The steps of a pipeline that hand a context to the container runtime.
RuntimeCalls == {"RunEphemeralBuildContainer", "StopAndRemoveContainer",
                 "CreateAndStartNginxContainer"}

\* Run r makes a call to the container runtime in this step.
CallsRuntime(r) ==
    /\ r \in DOMAIN runs
    /\ runs[r].pc \in RuntimeCalls
    /\ runs'[r].pc # runs[r].pc

\* C26: the cancellation or completion of the request that launched a
\* pipeline neither aborts nor alters a step of it.  The context of the
\* pipeline is never cancelled; a call to the container runtime made after
\* the request's context was cancelled goes through like any other (it ends
\* the run only when the runtime fails under it); a run under which nothing
\* fails ends with its container running and the row live; and every run
\* comes to its end.
C26_PipelineOutlivesRequest ==
    /\ [](~Done(deployContext))
    /\ [][\A r \in DOMAIN runs :
             CallsRuntime(r) /\ Done(requestContext) /\ faults' = faults
                => runs'[r].pc # "done"]_vars
    /\ [](\A r \in DOMAIN runs :
             runs[r].pc = "done" /\ faults = 0 =>
                /\ runs[r].writes = <<StatusDeploying, StatusLive>>
                /\ Live(runs[r].deployment.ID)
                /\ Running(runs[r].deployment.Slug))
    /\ <>(\A r \in DOMAIN runs : runs[r].pc = "done")

\* C26 witness: the context of the request has been cancelled and the
\* pipeline has come to its end with the row live and the container running.
C26_Witness ==
    /\ Done(requestContext)
    /\ \E r \in DOMAIN runs :
          /\ runs[r].pc = "done"
          /\ runs[r].writes = <<StatusDeploying, StatusLive>>
          /\ Live(runs[r].deployment.ID)
          /\ containers[ContainerName(runs[r].deployment.Slug)]
                 = [state |-> "running", run |-> r]

\* ------------------------------------------------------------------ C27
\* C27: graceful shutdown cancels all pipelines.  Once the shutdown signal
\* has come the context the pipelines work under is cancelled, and a
\* pipeline in flight stops at its next call to the container runtime: the
\* call changes no container and ends the run.
C27_ShutdownCancelsPipelines ==
    /\ [](main = "Shutdown" => Done(deployContext))
    /\ [][\A r \in DOMAIN runs :
             CallsRuntime(r) /\ main = "Shutdown"
                => runs'[r].pc = "done" /\ containers' = containers]_vars

\* --------------------------------- StartExpirationCleanupLoop and its context
\* The context of the loop is cancelled by whoever holds its cancel function.
CancelExpiration ==
    /\ ~Done(expirationContext)
    /\ cancelled' = cancelled \cup {expirationContext}
    /\ event' = NoEvent
    /\ UNCHANGED <<main, now, faults, db, nextId, containers, assets, logs,
                   runs, reaper, touched>>

\* Variant: the loop logs that it has stopped and goes on selecting.
ReaperReturn_GoesOn ==
    /\ reaper.pc = "idle"
    /\ Done(expirationContext)
    /\ reaper' = reaper
    /\ event' = [type |-> "loop", stopped |-> TRUE]
    /\ UNCHANGED <<main, cancelled, now, faults, db, nextId, containers,
                   assets, logs, runs, touched>>

\* The select of the loop takes the case <-expirationContext.Done(): the
\* loop logs that it has stopped and returns (the deferred ticker.Stop
\* runs).  While a tick is pending as well, select may take either case, so
\* ReaperTick stays possible until this step is taken.
ReaperReturn ==
    /\ reaper.pc = "idle"
    /\ Done(expirationContext)
    /\ reaper' = [reaper EXCEPT !.pc = "returned"]
    /\ event' = [type |-> "loop", stopped |-> TRUE]
    /\ UNCHANGED <<main, cancelled, now, faults, db, nextId, containers,
                   assets, logs, runs, touched>>

NextLoop ==
    \/ CancelExpiration
    \/ ReaperReturn
    \/ ReaperTick
    \/ TeardownCleanupContainer
    \/ TeardownCleanupFiles
    \/ TeardownCleanupLogFile
    \/ TeardownDeleteDeployment

\* The loop from a pass in progress.
SpecLoop == InitPasses /\ [][NextLoop]_vars

\* The goroutine is scheduled and the calls of a teardown return; select
\* chooses among its ready cases at random, so a case that is ready again
\* and again is taken in the end.
FairSpecLoop ==
    /\ SpecLoop
    /\ WF_vars(TeardownCleanupContainer)
    /\ WF_vars(TeardownCleanupFiles)
    /\ WF_vars(TeardownCleanupLogFile)
    /\ WF_vars(TeardownDeleteDeployment)
    /\ SF_vars(ReaperReturn)

\* ------------------------------------------------------------------ C28
\* C28: once the context of the loop is cancelled the loop returns in the
\* end; it returns only from its select, between two passes, and only when
\* the context is cancelled; and after it has returned no pass is started
\* and no teardown step is made.
C28_LoopReturns ==
    /\ Done(expirationContext) ~> reaper.pc = "returned"
    /\ [][reaper.pc # "returned" /\ reaper'.pc = "returned"
             => reaper.pc = "idle" /\ Done(expirationContext)]_vars
    /\ [][reaper.pc = "returned"
             => UNCHANGED <<reaper, db, containers, assets, logs, touched>>]_vars

\* C28 witness: the loop has returned after a pass that ran into the
\* cancelled context: a teardown of it ended at the container step although
\* nothing failed in the runtime.
C28_Witness ==
    /\ reaper.pc = "returned"
    /\ Done(expirationContext)
    /\ faults = 0
    /\ \E id \in Ids : touched[id] = "CleanupContainer"

\* ----------------------------------------- StopAndRemoveContainer by name
\* Names next to the names of the deployments that contain them: the
\* container of a slug that starts with another slug.
LongerNames == {ContainerName(s) \o <<"-2">> : s \in Slugs}

\* StopAndRemoveContainer called again and again, with any of the names,
\* on a runtime that holds any containers under the names and the longer
\* names.
InitStop ==
    /\ now = 0
    /\ faults \in {0, MaxFaults}
    /\ main = "serving"
    /\ cancelled = {}
    /\ db = [i \in Ids |-> NoRow]
    /\ nextId = 1
    /\ containers \in [ContainerNames \cup LongerNames ->
                          {NoContainer, [state |-> "running", run |-> 0],
                           [state |-> "stopped", run |-> 0]}]
    /\ assets = [s \in Slugs |-> NoDir]
    /\ logs = [s \in Slugs |-> FALSE]
    /\ runs = <<>>
    /\ reaper = IdleReaper
    /\ touched = [i \in Ids |-> "untouched"]
    /\ event = NoEvent

CallStopAndRemoveContainer ==
    \E name \in ContainerNames \cup LongerNames, outcome \in StopOutcomes :
        LET stopped == StopAndRemoveContainer(containers, name, outcome)
        IN  /\ Inject(Count(outcome # "ok"))
            /\ containers' = stopped.containers
            /\ event' = [type |-> "StopAndRemoveContainer", name |-> name,
                         err |-> stopped.err]
            /\ UNCHANGED <<main, cancelled, now, db, nextId, assets, logs, runs,
                           reaper, touched>>

NextStop == CallStopAndRemoveContainer

SpecStop == InitStop /\ [][NextStop]_vars

\* ------------------------------------------------------------------ C29
\* StopAndRemoveContainer has just returned from a call with this name.
Stopped(name) == event.type = "StopAndRemoveContainer" /\ event.name = name

\* C29: StopAndRemoveContainer(name) acts on the container of exactly that
\* name and on no other, whatever other names contain it; it returns nil and
\* changes nothing when no container has the name; when it returns nil no
\* container has the name; and a call that follows a call with the same name
\* that returned nil returns nil and changes nothing, unless the listing
\* fails under it.
C29_ExactNameIdempotent ==
    /\ [][\A name \in DOMAIN containers :
             Stopped(name)' /\ <<containers, event, faults>>' # <<containers, event, faults>> =>
                /\ \A n \in DOMAIN containers :
                      n # name => containers'[n] = containers[n]
                /\ containers[name] = NoContainer /\ faults' = faults =>
                      event'.err = "nil" /\ containers' = containers
                /\ event'.err = "nil" => containers'[name] = NoContainer
                /\ Stopped(name) /\ event.err = "nil" /\ faults' = faults =>
                      event'.err = "nil" /\ containers' = containers]_vars
    /\ [](\A name \in DOMAIN containers :
             Stopped(name) /\ event.err = "nil" => containers[name] = NoContainer)

\* C29 witness: the container of a name has been stopped and removed by a
\* call that returned nil, and the container of the longer name that
\* contains it is still running.
C29_Witness ==
    \E s \in Slugs :
        /\ Stopped(ContainerName(s)) /\ event.err = "nil"
        /\ faults = 0
        /\ containers[ContainerName(s)] = NoContainer
        /\ containers[ContainerName(s) \o <<"-2">>] = [state |-> "running", run |-> 0]

\* ------------------------------------------------------------------ C30
\* C30: GetDeployment(id) returns the stored deployment whenever a row with
\* the id exists, with the fields it was inserted with and its current
\* status, and returns ErrRecordNotFound exactly when no row has the id.
C30_GetReturnsStoredRow ==
    \A id \in Ids :
        LET got == GetDeployment(db, id)
        IN  IF Exists(id)
            THEN got.err = "nil" /\ got.deployment = db[id]
            ELSE got.err = "ErrRecordNotFound"

\* ------------------------------------------------- db/deployments.go
\* The three writes by id, called on stored tables.  A table holds rows with
\* distinct slugs (the UNIQUE constraint of the schema).
URLs == {<<"http://", s, ".localhost">> : s \in Slugs}

StoredRows(id) ==
    {NoRow} \cup {Deployment(id, s, SourceZip, "", st, NoExpiry) :
                     s \in Slugs, st \in {StatusDeploying, StatusLive, StatusFailed}}

InitStore ==
    /\ now = 0
    /\ faults \in {0, MaxFaults}
    /\ main = "serving"
    /\ cancelled = {}
    /\ db \in {t \in [Ids -> UNION {StoredRows(i) : i \in Ids}] :
                  /\ \A i \in Ids : t[i] \in StoredRows(i)
                  /\ \A i, j \in Ids :
                        i # j /\ t[i] # NoRow /\ t[j] # NoRow
                            => t[i].Slug # t[j].Slug}
    /\ nextId = 1
    /\ containers = [n \in ContainerNames |-> NoContainer]
    /\ assets = [s \in Slugs |-> NoDir]
    /\ logs = [s \in Slugs |-> FALSE]
    /\ runs = <<>>
    /\ reaper = IdleReaper
    /\ touched = [i \in Ids |-> "untouched"]
    /\ event = NoEvent

StoreEvent(op, id, err) == [type |-> "store", op |-> op, id |-> id, err |-> err]

CallUpdateStatus ==
    \E id \in Ids, newStatus \in {StatusDeploying, StatusLive, StatusFailed},
       fail \in Faults :
        LET written == UpdateStatus(db, id, newStatus, fail)
        IN  /\ Inject(Count(fail))
            /\ db' = written.db
            /\ event' = StoreEvent("UpdateStatus", id, written.err)
            /\ UNCHANGED <<main, cancelled, now, nextId, containers, assets,
                           logs, runs, reaper, touched>>

CallUpdateURL ==
    \E id \in Ids, url \in URLs, fail \in Faults :
        LET written == UpdateURL(db, id, url, fail)
        IN  /\ Inject(Count(fail))
            /\ db' = written.db
            /\ event' = StoreEvent("UpdateURL", id, written.err)
            /\ UNCHANGED <<main, cancelled, now, nextId, containers, assets,
                           logs, runs, reaper, touched>>

CallDeleteDeployment ==
    \E id \in Ids, fail \in Faults :
        LET deleted == DeleteDeployment(db, id, fail)
        IN  /\ Inject(Count(fail))
            /\ db' = deleted.db
            /\ event' = StoreEvent("DeleteDeployment", id, deleted.err)
            /\ UNCHANGED <<main, cancelled, now, nextId, containers, assets,
                           logs, runs, reaper, touched>>

NextStore == CallUpdateStatus \/ CallUpdateURL \/ CallDeleteDeployment

SpecStore == InitStore /\ [][NextStore]_vars

\* The fields of a row that the write named op leaves alone are unchanged.
OnlyWrote(op, before, after) ==
    CASE op = "UpdateStatus" -> after = [before EXCEPT !.Status = after.Status]
      [] op = "UpdateURL" -> after = [before EXCEPT !.URL = after.URL]
      [] OTHER -> after = NoRow

\* C31: UpdateStatus, UpdateURL and DeleteDeployment called with an id that no
\* row has return ErrRecordNotFound and leave the table as it was; called with
\* the id of a row they return nil, update (only the column they name) or
\* remove that row, and leave every other row as it was.  The call itself is
\* taken not to fail in the store (faults' = faults).
C31_WritesByIdHitOneRow ==
    [][\A id \in Ids :
          event'.type = "store" /\ event'.id = id /\ faults' = faults
              => /\ db[id] = NoRow
                     => event'.err = "ErrRecordNotFound" /\ db' = db
                 /\ db[id] # NoRow
                     => /\ event'.err = "nil"
                        /\ OnlyWrote(event'.op, db[id], db'[id])
                        /\ \A other \in Ids \ {id} : db'[other] = db[other]]_vars

\* A delete by an id that no row has came back with ErrRecordNotFound while
\* another row is stored.
C31_Witness ==
    /\ event.type = "store"
    /\ event.op = "DeleteDeployment"
    /\ event.err = "ErrRecordNotFound"
    /\ \E other \in Ids \ {event.id} : db[other] # NoRow

\* ------------------------------------------------------------ claim C32
SlugsDistinct ==
    \A i, j \in Ids :
        i # j /\ db[i] # NoRow /\ db[j] # NoRow => db[i].Slug # db[j].Slug

SlugInUse(table, slug) ==
    \E i \in Ids : table[i] # NoRow /\ table[i].Slug = slug

\* C32: in every reachable state no two rows have the same slug; a create
\* request whose generated slug is already stored is answered 500, leaves the
\* table as it was and launches no pipeline run; a create request answered
\* 201 has stored a row whose slug no row had before.
C32_SlugUnique ==
    /\ []SlugsDistinct
    /\ [][\A id \in Ids :
             event'.type = "http" /\ event'.op = "CreateDeployment"
                 /\ event'.id = id
                 => \/ /\ event'.code = 500
                       /\ db' = db
                       /\ runs' = runs
                    \/ /\ event'.code = 201
                       /\ db'[id] # NoRow
                       /\ ~SlugInUse(db, db'[id].Slug)
                       /\ Len(runs') = Len(runs) + 1]_vars
    /\ [](\A id \in Ids, slug \in Slugs :
             SlugInUse(db, slug)
                 => LET inserted == InsertDeployment(db,
                            Deployment(id, slug, SourceZip, "", StatusDeploying,
                                       NoExpiry), FALSE)
                    IN  inserted.err # "nil" /\ inserted.db = db)

\* A create request was answered 500 although nothing failed: its slug was
\* the slug of the row that is stored.
C32_Witness ==
    /\ event = Http("CreateDeployment", nextId, 500)
    /\ faults = 0
    /\ \E i \in Ids : db[i] # NoRow
    /\ runs # <<>>

\* ------------------------------------------------------------ claim C33
\* C33: while a row is stored, its id, slug, URL and webhook secret are the
\* ones it was inserted with: a step changes nothing of a stored row but its
\* status, or deletes the row.
C33_IdentityImmutable ==
    [][\A id \in Ids :
          db[id] # NoRow /\ db'[id] # db[id]
              => \/ db'[id] = NoRow
                 \/ /\ db'[id] = [db[id] EXCEPT !.Status = db'[id].Status]
                    /\ db'[id].Slug = db[id].Slug
                    /\ db'[id].URL = db[id].URL
                    /\ db'[id].WebhookSecret = db[id].WebhookSecret]_vars

\* A pipeline run has written live into a row, whose URL is still the one
\* made from its slug at the insert, and another row has been deleted.
C33_Witness ==
    \E id \in Ids :
        /\ db[id] # NoRow
        /\ db[id].Status = StatusLive
        /\ db[id].URL = <<"http://", db[id].Slug, ".localhost">>
        /\ db[id].WebhookSecret = <<"secret", id>>
        /\ \E other \in Ids \ {id} : other < nextId /\ db[other] = NoRow

\* ------------------------------------------------------------ claim C34
\* A step leaves alone every row but the row with this id, and every
\* container, asset directory and log file but those named by this slug.
TouchesOnly(id, slug) ==
    /\ \A other \in Ids \ {id} : db'[other] = db[other]
    /\ \A s \in Slugs \ {slug} :
          /\ containers'[ContainerName(s)] = containers[ContainerName(s)]
          /\ assets'[s] = assets[s]
          /\ logs'[s] = logs[s]

\* C34: a step of a pipeline run for a deployment, and a step of the teardown
\* of a deployment, changes no row of another id and no container, asset
\* directory or log file named by another slug, whatever other runs and
\* teardowns are in progress.
C34_PerSlugIsolation ==
    [][/\ \A r \in DOMAIN runs :
             r \in DOMAIN runs' /\ runs'[r] # runs[r]
                 => TouchesOnly(runs[r].deployment.ID, runs[r].deployment.Slug)
       /\ reaper.pc \in TeardownSteps /\ reaper' # reaper
             => TouchesOnly(Current.ID, Current.Slug)]_vars

\* A teardown has returned nil for one deployment while another deployment,
\* of another slug, is live with its container running and its files in
\* place.
C34_Witness ==
    /\ event.type = "teardown"
    /\ event.err = "nil"
    /\ \E b \in Ids \ {event.deployment.ID} :
          /\ db[b] # NoRow
          /\ db[b].Status = StatusLive
          /\ db[b].Slug # event.deployment.Slug
          /\ containers[ContainerName(db[b].Slug)] # NoContainer
          /\ assets[db[b].Slug] # NoDir

\* ------------------------------------------------------ util/copy.go
\* CopyDirectory at the level of files.  A directory tree is given by the
\* entry found at each relative path, the paths in the order filepath.WalkDir
\* visits them (lexical).
WalkOrder == <<"a.html", "dir", "dir/b.js">>

Absent == [kind |-> "absent"]
RegularFile(content) == [kind |-> "file", content |-> content]
Directory == [kind |-> "dir"]
Symlink == [kind |-> "symlink"]     \* or any other non-regular file
FileEntries == {Absent, RegularFile("v1"), RegularFile("v2"), Symlink}

\* The trees a file system can hold: an entry below "dir" needs "dir".
Trees ==
    {t \in [DOMAIN WalkOrder -> FileEntries \cup {Directory}] :
        /\ t[1] \in FileEntries
        /\ t[2] \in {Absent, Directory}
        /\ t[3] \in FileEntries
        /\ t[3] # Absent => t[2] = Directory}

Tree(files) == [exists |-> TRUE, files |-> files]
Dirs == {NoDir} \cup {Tree(t) : t \in Trees}

\* What the output path of the staged content can be: nothing, a directory,
\* or a regular file.
Outputs == Dirs \cup {RegularFile("v1")}
IsDirectory(path) == path \in Dirs \ {NoDir}

\* The first entry of the walk at which the callback returns an error: a
\* symlink or other non-regular file, or the regular file whose copyFile
\* fails; one past the last entry when the walk completes.
FirstError(files, outcome) ==
    LET bad == {i \in DOMAIN WalkOrder :
                   \/ files[i] = Symlink
                   \/ outcome = "walkFail" /\ files[i].kind = "file"}
    IN  IF bad = {} THEN Len(WalkOrder) + 1
        ELSE CHOOSE i \in bad : \A j \in bad : i <= j

\* Variant: the destination is not removed before the walk.
CopyDirectoryTree_NoWipe(src, dest, outcome) ==
    IF ~IsDirectory(src) \/ outcome \in {"statFail", "removeFail"}
    THEN [err |-> "CopyError", dest |-> dest]
    ELSE IF outcome = "mkdirFail" THEN [err |-> "CopyError", dest |-> dest]
    ELSE LET stop == FirstError(src.files, outcome)
             old == IF dest = NoDir THEN [i \in DOMAIN WalkOrder |-> Absent]
                    ELSE dest.files
             written == [i \in DOMAIN WalkOrder |->
                            IF i < stop /\ src.files[i] # Absent
                            THEN src.files[i] ELSE old[i]]
         IN  [err |-> IF stop <= Len(WalkOrder) THEN "CopyError" ELSE "nil",
              dest |-> Tree(written)]

\* Variant: the destination is removed before the source is looked at.
CopyDirectoryTree_WipeFirst(src, dest, outcome) ==
    IF outcome = "removeFail" THEN [err |-> "CopyError", dest |-> dest]
    ELSE IF ~IsDirectory(src) \/ outcome \in {"statFail", "mkdirFail"}
    THEN [err |-> "CopyError", dest |-> NoDir]
    ELSE LET stop == FirstError(src.files, outcome)
             written == [i \in DOMAIN WalkOrder |->
                            IF i < stop THEN src.files[i] ELSE Absent]
         IN  [err |-> IF stop <= Len(WalkOrder) THEN "CopyError" ELSE "nil",
              dest |-> Tree(written)]

\* os.Stat(srcDir) and IsDir, os.RemoveAll(destDir), os.MkdirAll(destDir), then the
\* walk: MkdirAll for a directory, copyFile for a regular file, an error for
\* anything else.  The walk stops at the first error and leaves what it has
\* written.
CopyDirectoryTree(src, dest, outcome) ==
    IF ~IsDirectory(src) \/ outcome \in {"statFail", "removeFail"}
    THEN [err |-> "CopyError", dest |-> dest]
    ELSE IF outcome = "mkdirFail" THEN [err |-> "CopyError", dest |-> NoDir]
    ELSE LET stop == FirstError(src.files, outcome)
             written == [i \in DOMAIN WalkOrder |->
                            IF i < stop THEN src.files[i] ELSE Absent]
         IN  [err |-> IF stop <= Len(WalkOrder) THEN "CopyError" ELSE "nil",
              dest |-> Tree(written)]

CopySlug == CHOOSE s \in Slugs : TRUE

\* One deployment whose output directory is staged (or missing) and whose
\* asset directory holds any earlier tree or does not exist.
InitCopy ==
    /\ now = 0
    /\ faults \in {0, MaxFaults}
    /\ main = "serving"
    /\ cancelled = {}
    /\ db = [i \in Ids |->
                IF i = 1 THEN Deployment(1, CopySlug, SourceZip, "",
                                         StatusDeploying, NoExpiry)
                ELSE NoRow]
    /\ nextId = 2
    /\ containers = [n \in ContainerNames |-> NoContainer]
    /\ \E dest \in Dirs : assets = [s \in Slugs |-> IF s = CopySlug THEN dest ELSE NoDir]
    /\ logs = [s \in Slugs |-> FALSE]
    /\ \E output \in Outputs :
          runs = <<[deployment |-> db[1], kind |-> "DeployZipUpload",
                    pc |-> "CopyDirectory", writes |-> <<>>, output |-> output]>>
    /\ reaper = IdleReaper
    /\ touched = [i \in Ids |-> "untouched"]
    /\ event = NoEvent

\* util.CopyDirectory(outputDirectory, <assetStorageRoot>/<slug>)
CallCopyDirectory ==
    \E outcome \in CopyOutcomes :
        LET copied == CopyDirectoryTree(runs[1].output, assets[CopySlug], outcome)
        IN  /\ runs[1].pc = "CopyDirectory"
            /\ Inject(Count(outcome # "ok"))
            /\ assets' = [assets EXCEPT ![CopySlug] = copied.dest]
            /\ runs' = [runs EXCEPT ![1].pc = "done"]
            /\ event' = [type |-> "CopyDirectory", err |-> copied.err,
                         before |-> assets[CopySlug]]
            /\ UNCHANGED <<main, cancelled, now, db, nextId, containers, logs,
                           reaper, touched>>

\* The next deploy of the same slug stages its own output.
StageOutput ==
    \E output \in Outputs :
        /\ runs[1].pc = "done"
        /\ runs' = [runs EXCEPT ![1].pc = "CopyDirectory", ![1].output = output]
        /\ event' = NoEvent
        /\ UNCHANGED <<main, cancelled, now, faults, db, nextId, containers,
                       assets, logs, reaper, touched>>

NextCopy == CallCopyDirectory \/ StageOutput

SpecCopy == InitCopy /\ [][NextCopy]_vars

\* C35: when CopyDirectory returns nil, the asset directory of the slug
\* exists and holds at every relative path the entry the output directory
\* holds there, each a directory or a regular file with the same content; a
\* path the output directory does not have is absent, whatever an earlier
\* deploy left there.
C35_NoStaleFiles ==
    event.type = "CopyDirectory" /\ event.err = "nil"
        => /\ IsDirectory(runs[1].output)
           /\ IsDirectory(assets[CopySlug])
           /\ \A i \in DOMAIN WalkOrder :
                 /\ assets[CopySlug].files[i] = runs[1].output.files[i]
                 /\ assets[CopySlug].files[i].kind \in {"absent", "dir", "file"}

\* A copy returned nil onto a directory that held a file of an earlier deploy
\* at a path the new output does not have.
C35_Witness ==
    /\ event.type = "CopyDirectory"
    /\ event.err = "nil"
    /\ event.before # NoDir
    /\ \E i \in DOMAIN WalkOrder :
          /\ event.before.files[i].kind = "file"
          /\ runs[1].output.files[i] = Absent
    /\ \E i \in DOMAIN WalkOrder : assets[CopySlug].files[i].kind = "file"

\* ------------------------------------------- deployToNginx, file by file
\* One run at the start of deployToNginx: the row says deploying, the content
\* is staged, the slug may have a directory and a container of an earlier
\* deploy.
InitPublish ==
    \E kind \in {"DeployZipUpload", "DeployGitHub"}, output \in Outputs,
       dest \in Dirs,
       container \in {NoContainer, [state |-> "running", run |-> 0]} :
        LET deployment == Deployment(1, CopySlug,
                              IF kind = "DeployZipUpload" THEN SourceZip
                                                          ELSE SourceGitHub,
                              "", StatusDeploying, NoExpiry)
        IN  /\ now = 0
            /\ faults \in {0, MaxFaults}
            /\ main = "serving"
            /\ cancelled = {}
            /\ db = [i \in Ids |-> IF i = 1 THEN deployment ELSE NoRow]
            /\ nextId = 2
            /\ containers = [n \in ContainerNames |->
                                IF n = ContainerName(CopySlug) THEN container
                                ELSE NoContainer]
            /\ assets = [s \in Slugs |-> IF s = CopySlug THEN dest ELSE NoDir]
            /\ logs = [s \in Slugs |-> s = CopySlug]
            /\ runs = <<[deployment |-> deployment, kind |-> kind,
                         pc |-> "deployToNginx", writes |-> <<StatusDeploying>>,
                         output |-> output]>>
            /\ reaper = IdleReaper
            /\ touched = [i \in Ids |-> "untouched"]
            /\ event = NoEvent

\* os.Stat(outputDirectory): ErrNotExist and any other error end the run
\* through logFailureAndUpdateStatus.
PublishStat ==
    \E r \in DOMAIN runs, failStat \in Faults, failAgain \in Faults :
        LET err == IF runs[r].output = NoDir THEN "NotExist"
                   ELSE IF failStat THEN "StatError" ELSE "nil"
        IN  /\ runs[r].pc = "deployToNginx"
            /\ Inject(Count(failStat) + Count(failAgain))
            /\ err # "nil" \/ ~failAgain
            /\ IF err # "nil"
               THEN LET failed == logFailureAndUpdateStatus(r, db, failAgain)
                    IN  db' = failed.db /\ runs' = failed.runs
               ELSE /\ runs' = [runs EXCEPT ![r].pc = "CopyDirectory"]
                    /\ UNCHANGED db
            /\ event' = NoEvent
            /\ UNCHANGED <<main, cancelled, now, nextId, containers, assets,
                           logs, reaper, touched>>

\* util.CopyDirectory(outputDirectory, <assetStorageRoot>/<slug>); an error
\* ends the run through logFailureAndUpdateStatus.
PublishCopy ==
    \E r \in DOMAIN runs, outcome \in CopyOutcomes, failAgain \in Faults :
        LET slug == runs[r].deployment.Slug
            copied == CopyDirectoryTree(runs[r].output, assets[slug], outcome)
        IN  /\ runs[r].pc = "CopyDirectory"
            /\ Inject(Count(outcome # "ok") + Count(failAgain))
            /\ copied.err # "nil" \/ ~failAgain
            /\ assets' = [assets EXCEPT ![slug] = copied.dest]
            /\ IF copied.err # "nil"
               THEN LET failed == logFailureAndUpdateStatus(r, db, failAgain)
                    IN  db' = failed.db /\ runs' = failed.runs
               ELSE /\ runs' = [runs EXCEPT ![r].pc = "StopAndRemoveContainer"]
                    /\ UNCHANGED db
            /\ event' = NoEvent
            /\ UNCHANGED <<main, cancelled, now, nextId, containers, logs,
                           reaper, touched>>

NextPublish ==
    \/ PublishStat
    \/ PublishCopy
    \/ PipelineStopOld
    \/ PipelineStartNginx
    \/ PipelineMarkLive

SpecPublish == InitPublish /\ [][NextPublish]_vars

\* C36: a run whose output path is missing, or is not a directory, takes no
\* step that changes the asset directory of its slug or any container, never
\* reaches the container steps, and when it ends the row says failed (the
\* write of failed itself not failing).
C36_MissingOutputFails ==
    [][\A r \in DOMAIN runs :
          ~IsDirectory(runs[r].output)
              => /\ assets' = assets
                 /\ containers' = containers
                 /\ runs'[r].pc \in {"deployToNginx", "CopyDirectory", "done"}
                 /\ runs'[r].pc = "done" /\ runs[r].pc # "done"
                        /\ faults' = faults
                        => db'[runs[r].deployment.ID].Status = StatusFailed]_vars

\* A run whose output path is missing has ended with the row failed, next to
\* the files and the running container of an earlier deploy.
C36_Witness ==
    /\ runs[1].pc = "done"
    /\ runs[1].output = NoDir
    /\ db[1].Status = StatusFailed
    /\ IsDirectory(assets[CopySlug])
    /\ \E i \in DOMAIN WalkOrder : assets[CopySlug].files[i].kind = "file"
    /\ containers[ContainerName(CopySlug)] = [state |-> "running", run |-> 0]

\* ------------------------------------------------------------ claim C37
\* The log file of the run could not be opened, that is the only failure of
\* the behaviour, and the build command, if one ran, exited with 0.
OnlyLogFailed(r) ==
    /\ runs[r].pc # "UpdateStatusDeploying"
    /\ runs[r].logFile = "nil"
    /\ faults = 1
    /\ runs[r].build = NoBuild \/ runs[r].build.err = "nil"

\* C37: a run whose log file could not be opened, nothing else failing and
\* its build command not failing, never writes failed, creates no log file,
\* and ends as a run with a log file ends: the store written deploying then
\* live, the files published, the serving container of the slug created by
\* the run and running.
C37_LogFailureNotFatal ==
    \A r \in DOMAIN runs :
        OnlyLogFailed(r)
            => LET deployment == runs[r].deployment
               IN  /\ db[deployment.ID].Status # StatusFailed
                   /\ logs[deployment.Slug] = (deployment.Status = StatusLive)
                   /\ runs[r].pc \in {"done", "returned"}
                         => /\ runs[r].writes = <<StatusDeploying, StatusLive>>
                            /\ db[deployment.ID].Status = StatusLive
                            /\ assets[deployment.Slug] = Dir(deployment.ID)
                            /\ containers[ContainerName(deployment.Slug)] =
                                  [state |-> "running", run |-> r]

\* A GitHub run with a build command has returned live without a log file.
C37_Witness ==
    /\ OnlyLogFailed(1)
    /\ runs[1].pc = "returned"
    /\ runs[1].kind = "DeployGitHub"
    /\ runs[1].build # NoBuild
    /\ db[runs[1].deployment.ID].Status = StatusLive

\* ------------------------------------------------------------ claim C38
\* In this step run r returns.
Terminates(r) == runs[r].pc # "done" /\ runs'[r].pc = "done"

\* No store write of run r fails in this step: at the two steps that are a
\* store write, and at the redeploy's look for its files (which ends the run
\* without any call failing), nothing fails; at the other steps the store
\* works.
WritesSucceed(r) ==
    IF \/ runs[r].pc \in {"UpdateStatusDeploying", "UpdateStatusLive"}
       \/ runs[r].kind = "RedeployExistingZip" /\ runs[r].pc = "deployToNginx"
    THEN faults' = faults
    ELSE StoreWorks(r)

\* C38: a pipeline run never returns leaving its deployment deploying.  The
\* last status a returning run writes is live or failed, and when its store
\* writes succeed and the row is still there, the row is live or failed once
\* the run has returned.
C38_NoRunEndsDeploying ==
    [][\A r \in DOMAIN runs :
          r \in DOMAIN runs' /\ Terminates(r)
              => LET id == runs[r].deployment.ID
                     writes == runs'[r].writes
                 IN  /\ writes # <<>>
                     /\ writes[Len(writes)] \in {StatusLive, StatusFailed}
                     /\ WritesSucceed(r) /\ db'[id] # NoRow
                           => db'[id].Status \in {StatusLive, StatusFailed}]_vars

\* Both kinds of create run have returned, one leaving its row live and one
\* leaving its row failed.
C38_Witness ==
    \E r, q \in DOMAIN runs :
        /\ runs[r].pc = "done" /\ runs[q].pc = "done"
        /\ runs[r].kind = "DeployZipUpload" /\ runs[q].kind = "DeployGitHub"
        /\ db[runs[r].deployment.ID] # NoRow
        /\ db[runs[q].deployment.ID] # NoRow
        /\ db[runs[r].deployment.ID].Status = StatusFailed
        /\ db[runs[q].deployment.ID].Status = StatusLive

\* ------------------------------------------------------------ claim C39
BeforePublish == {"UpdateStatusDeploying", "cloneGitHubRepo",
                  "RunEphemeralBuildContainer"}

\* In this step the GitHub run r ends at a failed clone or at a failed
\* decoding of the environment or build.
FailsBeforePublish(r) ==
    /\ runs[r].kind = "DeployGitHub"
    /\ runs[r].pc \in {"cloneGitHubRepo", "RunEphemeralBuildContainer"}
    /\ runs'[r].pc = "done"

\* C39: a GitHub redeploy that fails at the clone, at the decoding of the
\* environment variables or at the build writes failed as its last write,
\* and, like every step of the run before deployToNginx, changes neither
\* the asset directories nor the containers: the row is failed next to the
\* files and the container of the earlier deploy.
C39_FailedRedeployKeepsSite ==
    /\ [][\A r \in DOMAIN runs :
             FailsBeforePublish(r)
                 => /\ runs'[r].writes = Append(runs[r].writes, StatusFailed)
                    /\ StoreWorks(r)
                          => db'[runs[r].deployment.ID].Status = StatusFailed
                    /\ assets' = assets
                    /\ containers' = containers]_vars
    /\ [][\A r \in DOMAIN runs :
             runs[r].kind = "DeployGitHub" /\ runs[r].pc \in BeforePublish
                 /\ runs'[r] # runs[r]
                 => assets' = assets /\ containers' = containers]_vars

\* The GitHub redeploy of a live deployment has returned after its build
\* command exited with an error: the row is failed, the container of the
\* earlier deploy is running and its files are in place.
C39_Witness ==
    /\ runs[1].kind = "DeployGitHub"
    /\ runs[1].pc = "returned"
    /\ runs[1].deployment.Status = StatusLive
    /\ runs[1].build # NoBuild
    /\ runs[1].build.err # "nil"
    /\ runs[1].writes = <<StatusDeploying, StatusFailed>>
    /\ db[runs[1].deployment.ID].Status = StatusFailed
    /\ containers[ContainerName(runs[1].deployment.Slug)] =
          [state |-> "running", run |-> 0]
    /\ assets[runs[1].deployment.Slug] = Dir(runs[1].deployment.ID)
\* ----------------------------------- two teardowns of one deployment
\* Two callers hold the record of the same deployment and run the teardown
\* steps at the same time: the DELETE handler after its lookup
\* (CleanupContainer, CleanupFiles, CleanupLogFile, DeleteDeployment, the
\* same steps and the same fatal errors as TeardownDeployment) and the
\* reaper's TeardownDeployment, or two DELETE handlers.  The three runtime
\* calls of StopAndRemoveContainer are steps of their own.
TeardownCallers == {<<"DeleteDeployment", "TeardownDeployment">>,
                    <<"DeleteDeployment", "DeleteDeployment">>}

NewTeardown(deployment, kind) ==
    [deployment |-> deployment, kind |-> kind, pc |-> "ContainerList",
     target |-> {}, err |-> "nil"]

InitRace ==
    \E kinds \in TeardownCallers, status \in {StatusLive, StatusFailed},
       container \in {NoContainer, [state |-> "running", run |-> 0],
                      [state |-> "stopped", run |-> 0]},
       hasDir \in BOOLEAN, hasLog \in BOOLEAN :
        LET deployment == Deployment(1, CopySlug, SourceZip, "", status, 0)
        IN  /\ now = MaxTime
            /\ faults \in {0, MaxFaults}
            /\ main = "serving"
            /\ cancelled = {}
            /\ db = [i \in Ids |-> IF i = 1 THEN deployment ELSE NoRow]
            /\ nextId = 2
            /\ containers = [n \in ContainerNames |->
                                IF n = ContainerName(CopySlug) THEN container
                                ELSE NoContainer]
            /\ assets = [s \in Slugs |->
                            IF s = CopySlug /\ hasDir THEN Dir(1) ELSE NoDir]
            /\ logs = [s \in Slugs |-> s = CopySlug /\ hasLog]
            /\ runs = [c \in DOMAIN kinds |-> NewTeardown(deployment, kinds[c])]
            /\ reaper = IdleReaper
            /\ touched = [i \in Ids |-> "untouched"]
            /\ event = NoEvent

\* Caller c leaves its step with err: a fatal error returns it, otherwise
\* the teardown goes on with the step `next`.
TeardownGoesOn(c, step, err, fatal, next) ==
    /\ runs' = [runs EXCEPT ![c].pc = IF err # "nil" /\ fatal THEN "returned"
                                      ELSE next,
                            ![c].err = IF err # "nil" /\ fatal THEN err ELSE @]
    /\ event' = [type |-> "teardownStep", caller |-> c, step |-> step,
                 err |-> err]

\* ContainerList and the exact-name match; with no match
\* StopAndRemoveContainer returns nil.
RaceContainerList ==
    \E c \in DOMAIN runs, fail \in Faults :
        LET name == ContainerName(runs[c].deployment.Slug)
            target == TargetContainer(containers, name)
        IN  /\ runs[c].pc = "ContainerList"
            /\ Inject(Count(fail))
            /\ IF fail
               THEN TeardownGoesOn(c, "ContainerList", "RuntimeError", TRUE, "")
               ELSE /\ runs' = [runs EXCEPT
                                  ![c].pc = IF target = {} THEN "CleanupFiles"
                                            ELSE "ContainerStop",
                                  ![c].target = target]
                    /\ event' = [type |-> "teardownStep", caller |-> c,
                                 step |-> "ContainerList", err |-> "nil"]
            /\ UNCHANGED <<main, cancelled, now, db, nextId, containers, assets,
                           logs, reaper, touched>>

\* ContainerStop(targetContainerID): an error when the container is gone,
\* nil when it is already stopped.
RaceContainerStop ==
    \E c \in DOMAIN runs, fail \in Faults : \E target \in runs[c].target :
        LET gone == containers[target] = NoContainer
            err == IF fail \/ gone THEN "RuntimeError" ELSE "nil"
        IN  /\ runs[c].pc = "ContainerStop"
            /\ Inject(Count(fail))
            /\ containers' = IF err = "nil"
                             THEN [containers EXCEPT ![target].state = "stopped"]
                             ELSE containers
            /\ TeardownGoesOn(c, "ContainerStop", err, TRUE, "ContainerRemove")
            /\ UNCHANGED <<main, cancelled, now, db, nextId, assets, logs,
                           reaper, touched>>

\* ContainerRemove(targetContainerID), not forced: an error when the
\* container is gone.
RaceContainerRemove ==
    \E c \in DOMAIN runs, fail \in Faults : \E target \in runs[c].target :
        LET gone == containers[target] = NoContainer
            err == IF fail \/ gone THEN "RuntimeError" ELSE "nil"
        IN  /\ runs[c].pc = "ContainerRemove"
            /\ Inject(Count(fail))
            /\ containers' = IF err = "nil"
                             THEN [containers EXCEPT ![target] = NoContainer]
                             ELSE containers
            /\ TeardownGoesOn(c, "ContainerRemove", err, TRUE, "CleanupFiles")
            /\ UNCHANGED <<main, cancelled, now, db, nextId, assets, logs,
                           reaper, touched>>

RaceCleanupFiles ==
    \E c \in DOMAIN runs, fail \in Faults :
        LET f == CleanupFiles(assets, runs[c].deployment.Slug, fail)
        IN  /\ runs[c].pc = "CleanupFiles"
            /\ Inject(Count(fail))
            /\ assets' = f.assets
            /\ TeardownGoesOn(c, "CleanupFiles", f.err, TRUE, "CleanupLogFile")
            /\ UNCHANGED <<main, cancelled, now, db, nextId, containers, logs,
                           reaper, touched>>

RaceCleanupLogFile ==
    \E c \in DOMAIN runs, fail \in Faults :
        LET l == CleanupLogFile(logs, runs[c].deployment.Slug, fail)
        IN  /\ runs[c].pc = "CleanupLogFile"
            /\ Inject(Count(fail))
            /\ logs' = l.logs
            /\ TeardownGoesOn(c, "CleanupLogFile", l.err, FALSE, "DeleteDeployment")
            /\ UNCHANGED <<main, cancelled, now, db, nextId, containers, assets,
                           reaper, touched>>

\* database.DeleteDeployment(id): the caller returns its error, or nil.
RaceDeleteDeployment ==
    \E c \in DOMAIN runs, fail \in Faults :
        LET deleted == DeleteDeployment(db, runs[c].deployment.ID, fail)
        IN  /\ runs[c].pc = "DeleteDeployment"
            /\ Inject(Count(fail))
            /\ db' = deleted.db
            /\ TeardownGoesOn(c, "DeleteDeployment", deleted.err, TRUE, "returned")
            /\ UNCHANGED <<main, cancelled, now, nextId, containers, assets,
                           logs, reaper, touched>>

NextRace ==
    \/ RaceContainerList
    \/ RaceContainerStop
    \/ RaceContainerRemove
    \/ RaceCleanupFiles
    \/ RaceCleanupLogFile
    \/ RaceDeleteDeployment

SpecRace == InitRace /\ [][NextRace]_vars

Succeeded(c) == runs[c].pc = "returned" /\ runs[c].err = "nil"
AllReturned == \A c \in DOMAIN runs : runs[c].pc = "returned"

\* C40: of two teardowns of one deployment that run at the same time, at
\* most one returns nil; and when both have returned and no call failed but
\* for what the other teardown had already taken away, the row, the
\* container and the asset directory of the deployment are all absent.
C40_ConcurrentTeardowns ==
    /\ ~(\A c \in DOMAIN runs : Succeeded(c))
    /\ AllReturned /\ faults = 0
          => /\ db[1] = NoRow
             /\ containers[ContainerName(CopySlug)] = NoContainer
             /\ assets[CopySlug] = NoDir
             /\ \E c \in DOMAIN runs : Succeeded(c)

\* A DELETE handler and the reaper's teardown have both returned: the handler
\* with the error of a container that the reaper had removed under it, the
\* reaper with nil.
C40_Witness ==
    /\ AllReturned
    /\ faults = 0
    /\ runs[1].kind = "DeleteDeployment" /\ runs[2].kind = "TeardownDeployment"
    /\ runs[1].err = "RuntimeError"
    /\ Succeeded(2)
    /\ db[1] = NoRow

====
